---------------------------- MODULE Spec2Model ----------------------------
(***************************************************************************)
(* MC-202 cassette-dump decoder (src/main.go).                             *)
(*                                                                         *)
(* generateBytes (the FSK framer), validateBytes / parseBytes (payload     *)
(* validator and parser) and the decode path of main are modelled as       *)
(* state machines, one action per loop iteration or branch of the code.    *)
(* Go indices are kept 0-based in the variables; a TLA+ sequence s holds   *)
(* the Go element s[i] at s[i+1].  A Go runtime panic (index or slice out  *)
(* of range) is the outcome "fault".                                       *)
(***************************************************************************)
EXTENDS Integers, Sequences, FiniteSets, TLC

VARIABLES
    \* ---- generateBytes: arguments
    bitstream,        \* []int argument, the len(bitstream) transition bits
    capacity,         \* cap(bitstream); elements in len..cap-1 are zero
    framerate,        \* int argument
    kind,             \* how the bitstream was synthesized (input label)
    payload,          \* the payload bytes the bitstream was synthesized from
    \* ---- generateBytes: locals
    pc,               \* position in generateBytes
    outcome,          \* how generateBytes ended
    sample,           \* circular buffer of framesPerBit transition bits
    sampleIndex,
    signChanges,
    bitstreamIndex,
    result,
    foundMagicByte,
    magicByteIndex,
    previousByte,
    validByteIndex,
    lastByteIndex,
    insideBuffer,
    maxRead,
    branch,           \* the branch of generateBytes taken last and the cursor
                      \* it was taken at          \* highest bitstream index the code has tried to read
    \* ---- validateBytes / parseBytes
    data,             \* backing array of the []byte argument (cap(data) long)
    dataLen,          \* len(data)
    ppc,              \* position in parseBytes
    i,                \* walk cursor of parseBytes
    sequence,         \* the Sequence under construction
    checksum,         \* int8 running sum of parseBytes
    perr,             \* result of parseBytes
    variant,          \* the source file whose validateBytes is run
    \* ---- main (decode path)
    mpc,              \* position in main
    calls,            \* the calls main has made, in order
    \* ---- generateSignChangeBits
    decoder,          \* the wav decoder: NumChans, BitDepth and its PCM source
    offset,           \* argument offset
    buf,              \* buf.Data, each entry with the place it was read from
    nread,            \* n, the count the last PCMBuffer call returned
    bi,               \* index i of the frame loop
    previous,         \* sign bit of the frame processed last
    bits,             \* the bits emitted
    processed,        \* the buffer entries the frame loop has processed,
                      \* each with the number of the fill it was taken in
    spc,              \* position in generateSignChangeBits
    sret              \* what generateSignChangeBits returned

gbArgs == <<bitstream, capacity, framerate, kind, payload>>
gbLocals == <<pc, outcome, sample, sampleIndex, signChanges, bitstreamIndex,
              result, foundMagicByte, magicByteIndex, previousByte,
              validByteIndex, lastByteIndex, insideBuffer, maxRead, branch>>
gbVars == <<gbArgs, gbLocals>>
parseVars == <<data, dataLen, variant, ppc, i, sequence, checksum, perr>>
mainVars == <<mpc, calls>>
signVars == <<decoder, offset, buf, nread, bi, previous, bits, processed, spc,
              sret>>
vars == <<gbVars, parseVars, mainVars, signVars>>

(***************************************************************************)
(* Program constants                                                       *)
(***************************************************************************)
BaseFreq == 2370
magicByte == 224
dataBufferLength == 122
barByte == 255

BitMasks == <<1, 2, 4, 8, 16, 32, 64, 128>>

Min(a, b) == IF a < b THEN a ELSE b
Max(a, b) == IF a > b THEN a ELSE b

RECURSIVE sum(_)
sum(slice) == IF Len(slice) = 0 THEN 0 ELSE Head(slice) + sum(Tail(slice))

\* int(float64(framerate)*4/BaseFreq + 0.5)
FramesPerBit(rate) == (8 * rate + BaseFreq) \div (2 * BaseFreq)

framesPerBit == FramesPerBit(framerate)

\* transition j of a tone window: 1 is the "1" tone (a sign change every
\* frame), 0 the "0" tone (a sign change every other frame), 2 silence
ToneBit(s, j) == IF s = 1 THEN 1 ELSE IF s = 0 THEN (j + 1) % 2 ELSE 0

(***************************************************************************)
(* The long stream: LongLeadIn windows of the "1" tone, then a sequence    *)
(* whose length field says LongLines lines, framed as the encoder of       *)
(* src/main.go frames it (a start window, 8 data windows least significant *)
(* bit first and 2 stop windows a byte, the guard tone after the fourth    *)
(* byte, no stop windows after the last), then one window of the "0" tone. *)
(* Window x (from 0) of it is LongSym(x).                                  *)
(***************************************************************************)
LongLines == 1000
LongLeadIn == 2

LongWindows ==
    LongLeadIn + 4 * 11 + dataBufferLength + (6 + LongLines + 4 - 5) * 11 + 9
    + 1

LongSym(x) ==
    LET o == x - LongLeadIn
        head == 4 * 11 + dataBufferLength
        byte(k) == IF k = 1 THEN magicByte
                   ELSE IF k <= 4 THEN k - 1
                   ELSE IF k = 5 THEN LongLines \div 256
                   ELSE IF k = 6 THEN LongLines % 256
                   ELSE 0
        sym(k, r) == IF r = 0 THEN 0
                     ELSE IF r <= 8 THEN (byte(k) \div BitMasks[r]) % 2
                     ELSE 1
    IN  IF o < 0 THEN 1
        ELSE IF o < 4 * 11 THEN sym((o \div 11) + 1, o % 11)
        ELSE IF o < head THEN 1
        ELSE IF x < LongWindows - 1
             THEN sym(5 + ((o - head) \div 11), (o - head) % 11)
        ELSE 0

\* len(bitstream)
BitstreamLen ==
    IF kind = "long" THEN LongWindows * framesPerBit ELSE Len(bitstream)

\* bitstream[idx] for an index below len(bitstream)
BitstreamAt(idx) ==
    IF kind = "long"
    THEN ToneBit(LongSym(idx \div framesPerBit), idx % framesPerBit)
    ELSE bitstream[idx + 1]

\* bitstream[idx] for an index below cap(bitstream)
Bit(idx) == IF idx < BitstreamLen THEN BitstreamAt(idx) ELSE 0

\* sum(bitstream[from : from+framesPerBit])
RECURSIVE WindowSumFrom(_, _)
WindowSumFrom(from, n) ==
    IF n = 0 THEN 0 ELSE Bit(from) + WindowSumFrom(from + 1, n - 1)

WindowSum(from) == WindowSumFrom(from, framesPerBit)

\* the slice expression bitstream[from : from+framesPerBit] panics
SliceFaults(from) == from + framesPerBit > capacity


(***************************************************************************)
(* generateSignChangeBits, src/main.go lines 48-105.  decoder.pcm is the   *)
(* interleaved sample data of the file and decoder.pos the number of       *)
(* samples read from it; decoder.PCMBuffer(buf) stores the next samples    *)
(* in buf.Data[0..n-1], leaves the rest of buf.Data as it was and returns  *)
(* n, or fails.  buf.Data has BufLen entries (framesToRead in the source). *)
(***************************************************************************)
BufLen == 4

\* a sample value that never came from the file
NoSample == [v |-> 0, src |-> 0, fill |-> 0]

\* the low byte of the sample in place of its high byte
LowByte(bitDepth, v) == v % 256

\* lines 83-92: byte(buf.Data[i] >> (bitDepth - 8))
Msb(bitDepth, v) == (v \div (2 ^ (bitDepth - 8))) % 256

\* line 94: msb & 0x80
SignBit(msb) == IF msb >= 128 THEN 128 ELSE 0

SupportedDepths == {16, 24, 32}

PCMCount == Min(BufLen, Len(decoder.pcm) - decoder.pos)

PCMFails == decoder.failAt = decoder.reads + 1

\* buf.Data after a PCMBuffer call that returned PCMCount samples
PCMFill ==
    [k \in 1..BufLen |->
       IF k <= PCMCount
       THEN [v |-> decoder.pcm[decoder.pos + k], src |-> decoder.pos + k,
             fill |-> decoder.reads + 1]
       ELSE buf[k]]

PCMRead == [decoder EXCEPT !.pos = @ + PCMCount, !.reads = @ + 1]

SReturn(r, b) ==
    /\ spc' = "done"
    /\ sret' = r
    /\ bits' = b

\* lines 49-58: decoder.Rewind() and the fresh buffer
SEnter ==
    /\ spc = "entry"
    /\ decoder' = [decoder EXCEPT !.pos = 0]
    /\ buf' = [k \in 1..BufLen |-> NoSample]
    /\ previous' = 0
    /\ bits' = <<>>
    /\ spc' = IF offset THEN "offset" ELSE "read"
    /\ UNCHANGED <<offset, nread, bi, processed, sret, gbVars, parseVars,
                   mainVars>>

\* lines 63-68: the fill that is read and dropped when offset is set
SOffsetRead ==
    /\ spc = "offset"
    /\ ~PCMFails
    /\ buf' = PCMFill
    /\ decoder' = PCMRead
    /\ spc' = "read"
    /\ UNCHANGED <<offset, nread, bi, previous, bits, processed, sret, gbVars,
                   parseVars, mainVars>>

\* lines 65-67
SOffsetError ==
    /\ spc = "offset"
    /\ PCMFails
    /\ decoder' = [decoder EXCEPT !.reads = @ + 1]
    /\ SReturn("errOffset", <<>>)
    /\ UNCHANGED <<offset, buf, nread, bi, previous, processed, gbVars,
                   parseVars, mainVars>>

\* lines 71-78: a fill of at least one sample
SRead ==
    /\ spc = "read"
    /\ ~PCMFails
    /\ PCMCount > 0
    /\ nread' = PCMCount
    /\ buf' = PCMFill
    /\ decoder' = PCMRead
    /\ bi' = 0
    /\ spc' = "frames"
    /\ UNCHANGED <<offset, previous, bits, processed, sret, gbVars,
                   parseVars, mainVars>>

\* lines 76-78, 104: n == 0 ends the loop and the bits are returned
SReadEnd ==
    /\ spc = "read"
    /\ ~PCMFails
    /\ PCMCount = 0
    /\ nread' = 0
    /\ decoder' = PCMRead
    /\ SReturn("ok", bits)
    /\ UNCHANGED <<offset, buf, bi, previous, processed, gbVars, parseVars,
                   mainVars>>

\* lines 72-74
SReadError ==
    /\ spc = "read"
    /\ PCMFails
    /\ decoder' = [decoder EXCEPT !.reads = @ + 1]
    /\ SReturn("err", <<>>)
    /\ UNCHANGED <<offset, buf, nread, bi, previous, processed, gbVars,
                   parseVars, mainVars>>

\* lines 80-101: one frame of the loop over buf.Data
SFrame ==
    /\ spc = "frames"
    /\ bi < BufLen
    /\ decoder.BitDepth \in SupportedDepths
    /\ LET signBit == SignBit(Msb(decoder.BitDepth, buf[bi + 1].v))
       IN  /\ bits' = Append(bits, IF signBit # previous THEN 1 ELSE 0)
           /\ previous' = signBit
    /\ processed' = Append(processed,
                            [v |-> buf[bi + 1].v, src |-> buf[bi + 1].src,
                             fill |-> buf[bi + 1].fill,
                             at |-> decoder.reads])
    /\ bi' = bi + decoder.NumChans
    /\ UNCHANGED <<decoder, offset, buf, nread, spc, sret, gbVars, parseVars,
                   mainVars>>

\* lines 90-91: unsupported bit depth
SFrameUnsupported ==
    /\ spc = "frames"
    /\ bi < BufLen
    /\ decoder.BitDepth \notin SupportedDepths
    /\ SReturn("errDepth", <<>>)
    /\ UNCHANGED <<decoder, offset, buf, nread, bi, previous, processed, gbVars,
                   parseVars, mainVars>>

\* line 80: i has reached len(buf.Data)
SFramesDone ==
    /\ spc = "frames"
    /\ bi >= BufLen
    /\ spc' = "read"
    /\ UNCHANGED <<decoder, offset, buf, nread, bi, previous, bits, processed,
                   sret, gbVars, parseVars, mainVars>>

SignNext ==
    \/ SEnter \/ SOffsetRead \/ SOffsetError \/ SRead \/ SReadEnd
    \/ SReadError \/ SFrame \/ SFrameUnsupported \/ SFramesDone

SignIdle ==
    /\ decoder = [NumChans |-> 1, BitDepth |-> 16, pcm |-> <<>>, pos |-> 0,
                  reads |-> 0, failAt |-> 0]
    /\ offset = FALSE
    /\ buf = <<>>
    /\ nread = 0
    /\ bi = 0
    /\ previous = 0
    /\ bits = <<>>
    /\ processed = <<>>
    /\ spc = "idle"
    /\ sret = "none"


(***************************************************************************)
(* generateBytes, src/main.go lines 111-309                                *)
(***************************************************************************)

\* the window after "Refill the sample buffer": for i < framesPerBit and
\* from+i < len(bitstream), sample[sampleIndex] = bitstream[from+i] and
\* sampleIndex advances round the ring
RefillCount(from) == Min(framesPerBit, Max(0, BitstreamLen - from))

RefillSample(from) ==
    [j \in 1..framesPerBit |->
        LET k == ((j - 1) - sampleIndex) % framesPerBit
        IN  IF k < RefillCount(from) THEN Bit(from + k) ELSE sample[j]]

RefillIndex(from) == (sampleIndex + RefillCount(from)) % framesPerBit

\* highest index the refill reads (it reads nothing when from >= len)
RefillMaxRead(from) ==
    IF RefillCount(from) = 0 THEN maxRead
    ELSE Max(maxRead, from + RefillCount(from) - 1)

\* the byte assembled by "for _, mask := range BitMasks" from cursor c
RECURSIVE ByteFrom(_, _)
ByteFrom(c, k) ==
    IF k > 8 THEN 0
    ELSE (IF WindowSum(c + (k - 1) * framesPerBit) >= 7 THEN BitMasks[k] ELSE 0)
         + ByteFrom(c, k + 1)

\* the byte of lines 175-180 with ">= 5" in place of ">= 7"
ByteValLoose(c) ==
    LET b(k) == IF WindowSum(c + (k - 1) * framesPerBit) >= 5
                THEN BitMasks[k] ELSE 0
    IN  b(1) + b(2) + b(3) + b(4) + b(5) + b(6) + b(7) + b(8)

ByteVal(c) == ByteFrom(c, 1)

\* the stop bits tested for every byte, the last one too
StopBitsAlwaysChecked == TRUE

\* "if lastByteIndex == 0 || validByteIndex+1 != lastByteIndex"
StopBitsChecked == lastByteIndex = 0 \/ validByteIndex + 1 # lastByteIndex

\* the stop-bit window (0 or 1) that fails after the data bits read from c,
\* 2 when both are dense
FailingStopBit(c) ==
    IF WindowSum(c + 8 * framesPerBit) < 7 THEN 0
    ELSE IF WindowSum(c + 9 * framesPerBit) < 7 THEN 1
    ELSE 2

\* "if len(result) != lastByteIndex+1 { return nil, error }; return result, nil"
Completion(res, last) == IF Len(res) # last + 1 THEN "errBytes" ELSE "ok"

\* the guard-tone loop of lines 137-142 from cursor c: the first of the
\* dataBufferLength windows that is not dense (or cannot be sliced),
\* dataBufferLength when there is none
GuardStop(c) ==
    LET stops == { n \in 0..(dataBufferLength - 1) :
                     \/ SliceFaults(c + n * framesPerBit)
                     \/ WindowSum(c + n * framesPerBit) < 7 }
    IN  IF stops = {} THEN dataBufferLength
        ELSE CHOOSE n \in stops : \A m \in stops : n <= m

\* no branch of generateBytes taken yet
NoBranch == [name |-> "none", at |-> 0, hyp |-> -1, from |-> <<>>]

\* the branches that append a byte (line 276), and those after which no
\* magic-byte hypothesis is open (lines 121-132, 198-202, 241-245)
AcceptBranches == {"GBAccept", "GBAcceptGuard", "GBAcceptLast"}
ClosingBranches == {"GBEnter", "GBProgramAbort", "GBStopBitFail"}

\* history of the loop: the branch taken, the cursor it was taken at, and
\* hyp, the cursor at which the data bits of the byte stored at result[0]
\* began (-1 while result is empty), and from, the cursors at which the
\* data bits of the bytes now in result began
Took(nm) ==
    branch' = [name |-> nm,
               at   |-> bitstreamIndex,
               hyp  |-> IF nm \in ClosingBranches THEN -1
                        ELSE IF nm \in AcceptBranches /\ ~foundMagicByte
                             THEN bitstreamIndex
                        ELSE branch.hyp,
               from |-> IF nm \in ClosingBranches THEN <<>>
                        ELSE IF nm \in AcceptBranches
                             THEN Append(branch.from, bitstreamIndex)
                        ELSE branch.from]

\* generateBytes returns (or panics) with outcome o
GBReturn(o) == /\ pc' = "done"
               /\ outcome' = o

\* lines 112-132: the initial fill reads bitstream[0 .. framesPerBit-2]
GBEnter ==
    /\ Took("GBEnter")
    /\ pc = "entry"
    /\ BitstreamLen >= framesPerBit - 1
    /\ sample' = [j \in 1..framesPerBit |->
                    IF j <= framesPerBit - 1 THEN BitstreamAt(j - 1)
                    ELSE 0]
    /\ sampleIndex' = 0
    /\ signChanges' = sum(sample')
    /\ bitstreamIndex' = framesPerBit - 1
    /\ result' = <<>>
    /\ foundMagicByte' = FALSE
    /\ magicByteIndex' = 0
    /\ previousByte' = 0
    /\ validByteIndex' = -1
    /\ lastByteIndex' = 0
    /\ insideBuffer' = FALSE
    /\ maxRead' = framesPerBit - 2
    /\ pc' = "loop"
    /\ UNCHANGED <<outcome, gbArgs, parseVars, mainVars, signVars>>

\* line 118 panics: bitstream[i] with i >= len(bitstream)
GBEnterFault ==
    /\ Took("GBEnterFault")
    /\ pc = "entry"
    /\ BitstreamLen < framesPerBit - 1
    /\ maxRead' = BitstreamLen
    /\ GBReturn("fault")
    /\ UNCHANGED <<sample, sampleIndex, signChanges, bitstreamIndex, result,
                   foundMagicByte, magicByteIndex, previousByte, validByteIndex,
                   lastByteIndex, insideBuffer, gbArgs, parseVars, mainVars, signVars>>

\* line 135 false, lines 304-308
GBLoopExit ==
    /\ Took("GBLoopExit")
    /\ pc = "loop"
    /\ bitstreamIndex >= BitstreamLen
    /\ GBReturn(Completion(result, lastByteIndex))
    /\ UNCHANGED <<sample, sampleIndex, signChanges, bitstreamIndex, result,
                   foundMagicByte, magicByteIndex, previousByte, validByteIndex,
                   lastByteIndex, insideBuffer, maxRead, gbArgs, parseVars,
                   mainVars, signVars>>

\* lines 136-155 with every one of the dataBufferLength windows dense
GBGuardTraversal ==
    /\ Took("GBGuardTraversal")
    /\ pc = "loop"
    /\ bitstreamIndex < BitstreamLen
    /\ insideBuffer
    /\ GuardStop(bitstreamIndex) = dataBufferLength
    /\ LET c == bitstreamIndex + dataBufferLength * framesPerBit
       IN  /\ insideBuffer' = FALSE
           /\ sample' = RefillSample(c)
           /\ sampleIndex' = RefillIndex(c)
           /\ signChanges' = sum(sample')
           /\ bitstreamIndex' = c + framesPerBit
           /\ maxRead' = Max(Max(maxRead, c - 1), RefillMaxRead(c))
    /\ pc' = "slide"
    /\ UNCHANGED <<outcome, result, foundMagicByte, magicByteIndex,
                   previousByte, validByteIndex, lastByteIndex, gbArgs,
                   parseVars, mainVars, signVars>>

\* lines 138-140: a guard window sums to < 7
GBGuardInvalid ==
    /\ Took("GBGuardInvalid")
    /\ pc = "loop"
    /\ bitstreamIndex < BitstreamLen
    /\ insideBuffer
    /\ LET n == GuardStop(bitstreamIndex)
           c == bitstreamIndex + n * framesPerBit
       IN  /\ n < dataBufferLength
           /\ ~SliceFaults(c)
           /\ bitstreamIndex' = c
           /\ maxRead' = Max(maxRead, c + framesPerBit - 1)
    /\ GBReturn("errBuffer")
    /\ UNCHANGED <<sample, sampleIndex, signChanges, result, foundMagicByte,
                   magicByteIndex, previousByte, validByteIndex, lastByteIndex,
                   insideBuffer, gbArgs, parseVars, mainVars, signVars>>

\* line 138 panics: the slice of a guard window ends beyond cap(bitstream)
GBGuardFault ==
    /\ Took("GBGuardFault")
    /\ pc = "loop"
    /\ bitstreamIndex < BitstreamLen
    /\ insideBuffer
    /\ LET n == GuardStop(bitstreamIndex)
           c == bitstreamIndex + n * framesPerBit
       IN  /\ n < dataBufferLength
           /\ SliceFaults(c)
           /\ bitstreamIndex' = c
           /\ maxRead' = Max(maxRead, c + framesPerBit - 1)
    /\ GBReturn("fault")
    /\ UNCHANGED <<sample, sampleIndex, signChanges, result, foundMagicByte,
                   magicByteIndex, previousByte, validByteIndex, lastByteIndex,
                   insideBuffer, gbArgs, parseVars, mainVars, signVars>>

\* the iteration reaches line 157, directly or after the guard traversal
AtSlide == \/ pc = "slide"
           \/ pc = "loop" /\ bitstreamIndex < BitstreamLen /\ ~insideBuffer

\* lines 157-168 without the "signChanges--" of lines 162-164
GBSlideNoLeave ==
    /\ Took("GBSlide")
    /\ AtSlide
    /\ bitstreamIndex < BitstreamLen
    /\ LET val == BitstreamAt(bitstreamIndex)
       IN  /\ signChanges' = signChanges + (IF val > 0 THEN 1 ELSE 0)
           /\ sample' = [sample EXCEPT ![sampleIndex + 1] = val]
    /\ sampleIndex' = (sampleIndex + 1) % framesPerBit
    /\ maxRead' = Max(maxRead, bitstreamIndex)
    /\ pc' = "test"
    /\ UNCHANGED <<outcome, bitstreamIndex, result, foundMagicByte,
                   magicByteIndex, previousByte, validByteIndex, lastByteIndex,
                   insideBuffer, gbArgs, parseVars, mainVars, signVars>>

\* lines 157-168: one transition enters the window, one leaves
GBSlide ==
    /\ Took("GBSlide")
    /\ AtSlide
    /\ bitstreamIndex < BitstreamLen
    /\ LET val == BitstreamAt(bitstreamIndex)
       IN  /\ signChanges' = signChanges
                             + (IF val > 0 THEN 1 ELSE 0)
                             - (IF sample[sampleIndex + 1] > 0 THEN 1 ELSE 0)
           /\ sample' = [sample EXCEPT ![sampleIndex + 1] = val]
    /\ sampleIndex' = (sampleIndex + 1) % framesPerBit
    /\ maxRead' = Max(maxRead, bitstreamIndex)
    /\ pc' = "test"
    /\ UNCHANGED <<outcome, bitstreamIndex, result, foundMagicByte,
                   magicByteIndex, previousByte, validByteIndex, lastByteIndex,
                   insideBuffer, gbArgs, parseVars, mainVars, signVars>>

\* line 157 panics: after the guard traversal the cursor is not re-tested
\* against len(bitstream)
GBSlideFault ==
    /\ Took("GBSlideFault")
    /\ pc = "slide"
    /\ bitstreamIndex >= BitstreamLen
    /\ maxRead' = Max(maxRead, bitstreamIndex)
    /\ GBReturn("fault")
    /\ UNCHANGED <<sample, sampleIndex, signChanges, bitstreamIndex, result,
                   foundMagicByte, magicByteIndex, previousByte, validByteIndex,
                   lastByteIndex, insideBuffer, gbArgs, parseVars, mainVars, signVars>>

\* lines 299-301: no start bit, move on by one transition
GBAdvance ==
    /\ Took("GBAdvance")
    /\ pc = "test"
    /\ signChanges > 4
    /\ bitstreamIndex' = bitstreamIndex + 1
    /\ pc' = "loop"
    /\ UNCHANGED <<outcome, sample, sampleIndex, signChanges, result,
                   foundMagicByte, magicByteIndex, previousByte, validByteIndex,
                   lastByteIndex, insideBuffer, maxRead, gbArgs, parseVars,
                   mainVars, signVars>>

\* line 170 true: a start bit is recognized with the cursor at bitstreamIndex
AtTrigger == pc = "test" /\ signChanges <= 4

\* the eight data-bit slices of lines 175-180 stay within cap(bitstream)
DataBitsReadable(c) == c + 8 * framesPerBit <= capacity

\* lines 186-188
Discards(c) == ~foundMagicByte /\ ByteVal(c) # magicByte

\* lines 195-196 with the test of the third digit left out
ProgramNumberAbortTwoDigits(c) ==
    /\ foundMagicByte
    /\ validByteIndex + 1 \in {1, 2}
    /\ ByteVal(c) > 9

\* lines 195-196
ProgramNumberAbort(c) ==
    /\ foundMagicByte
    /\ validByteIndex + 1 \in {1, 2, 3}
    /\ ByteVal(c) > 9

ReachesStopCheck(c) ==
    DataBitsReadable(c) /\ ~Discards(c) /\ ~ProgramNumberAbort(c)

\* line 227 panics on the first or on the second stop-bit window
StopBitFaults(c) ==
    /\ StopBitsChecked
    /\ \/ SliceFaults(c + 8 * framesPerBit)
       \/ /\ WindowSum(c + 8 * framesPerBit) >= 7
          /\ SliceFaults(c + 9 * framesPerBit)

StopBitFails(c) ==
    StopBitsChecked /\ ~StopBitFaults(c) /\ FailingStopBit(c) < 2

\* the cursor at "VALID BYTE" (line 264) for a byte acquired from c
AcceptCursor(c) ==
    c + 8 * framesPerBit + (IF StopBitsChecked THEN 2 * framesPerBit ELSE 0)

\* the refill without the "bitstreamIndex += framesPerBit" after it
RefillAtNoAdvance(from) ==
    /\ sample' = RefillSample(from)
    /\ sampleIndex' = RefillIndex(from)
    /\ signChanges' = sum(sample')
    /\ bitstreamIndex' = from

\* the cursor moved on without the refill loop and without "signChanges =
\* sum(sample)"
RefillAtStale(from) ==
    /\ sample' = sample
    /\ sampleIndex' = sampleIndex
    /\ signChanges' = signChanges
    /\ bitstreamIndex' = from + framesPerBit

\* "Refill the sample buffer ... bitstreamIndex += framesPerBit"
RefillAt(from) ==
    /\ sample' = RefillSample(from)
    /\ sampleIndex' = RefillIndex(from)
    /\ signChanges' = sum(sample')
    /\ bitstreamIndex' = from + framesPerBit

\* lines 198-202 and 241-245 with "result = result[:1]"
AbortKeepsMagic ==
    /\ foundMagicByte' = FALSE
    /\ validByteIndex' = -1
    /\ magicByteIndex' = 0
    /\ result' = IF result = <<>> THEN <<>> ELSE <<result[1]>>

\* lines 198-202 and 241-245 without "result = result[:0]"
AbortKeepsResult ==
    /\ foundMagicByte' = FALSE
    /\ validByteIndex' = -1
    /\ magicByteIndex' = 0
    /\ result' = result

\* lines 198-202 and 241-245: the magic-byte hypothesis is given up
AbortHypothesis ==
    /\ foundMagicByte' = FALSE
    /\ validByteIndex' = -1
    /\ magicByteIndex' = 0
    /\ result' = <<>>

\* line 176 panics: a data-bit window is sliced beyond cap(bitstream)
GBDataBitFault ==
    /\ Took("GBDataBitFault")
    /\ AtTrigger
    /\ ~DataBitsReadable(bitstreamIndex)
    /\ maxRead' = Max(maxRead, capacity)
    /\ GBReturn("fault")
    /\ UNCHANGED <<sample, sampleIndex, signChanges, bitstreamIndex, result,
                   foundMagicByte, magicByteIndex, previousByte, validByteIndex,
                   lastByteIndex, insideBuffer, gbArgs, parseVars, mainVars, signVars>>

\* lines 186-188: before the magic byte, a byte that is not 0xE0 is dropped
\* by "continue"; the window and its count are left as they were
GBDiscard ==
    /\ Took("GBDiscard")
    /\ AtTrigger
    /\ DataBitsReadable(bitstreamIndex)
    /\ Discards(bitstreamIndex)
    /\ bitstreamIndex' = bitstreamIndex + 8 * framesPerBit
    /\ maxRead' = Max(maxRead, bitstreamIndex + 8 * framesPerBit - 1)
    /\ pc' = "loop"
    /\ UNCHANGED <<outcome, sample, sampleIndex, signChanges, result,
                   foundMagicByte, magicByteIndex, previousByte, validByteIndex,
                   lastByteIndex, insideBuffer, gbArgs, parseVars, mainVars, signVars>>

\* lines 195-216: a program-number byte above 9
GBProgramAbort ==
    /\ Took("GBProgramAbort")
    /\ AtTrigger
    /\ DataBitsReadable(bitstreamIndex)
    /\ ProgramNumberAbort(bitstreamIndex)
    /\ AbortHypothesis
    /\ RefillAt(magicByteIndex + framesPerBit)
    /\ maxRead' = Max(Max(maxRead, bitstreamIndex + 8 * framesPerBit - 1),
                      RefillMaxRead(magicByteIndex + framesPerBit))
    /\ pc' = "loop"
    /\ UNCHANGED <<outcome, previousByte, lastByteIndex, insideBuffer, gbArgs,
                   parseVars, mainVars, signVars>>

\* line 227 panics: a stop-bit window is sliced beyond cap(bitstream)
GBStopBitFault ==
    /\ Took("GBStopBitFault")
    /\ AtTrigger
    /\ ReachesStopCheck(bitstreamIndex)
    /\ StopBitFaults(bitstreamIndex)
    /\ maxRead' = Max(maxRead, capacity)
    /\ bitstreamIndex' =
          IF SliceFaults(bitstreamIndex + 8 * framesPerBit)
          THEN bitstreamIndex + 8 * framesPerBit
          ELSE bitstreamIndex + 9 * framesPerBit
    /\ GBReturn("fault")
    /\ UNCHANGED <<sample, sampleIndex, signChanges, result, foundMagicByte,
                   magicByteIndex, previousByte, validByteIndex, lastByteIndex,
                   insideBuffer, gbArgs, parseVars, mainVars, signVars>>

\* lines 225-259: stop-bit window i sums to < 7; the cursor goes back by
\* framesPerBit*(8+i), to where the data bits began, or to the frame after
\* the magic byte when a hypothesis is open
GBStopBitFail ==
    /\ Took("GBStopBitFail")
    /\ AtTrigger
    /\ ReachesStopCheck(bitstreamIndex)
    /\ StopBitFails(bitstreamIndex)
    /\ LET n == FailingStopBit(bitstreamIndex)
           rewound == (bitstreamIndex + (8 + n) * framesPerBit)
                         - framesPerBit * (8 + n)
           from == IF foundMagicByte THEN magicByteIndex + framesPerBit
                   ELSE rewound
       IN  /\ IF foundMagicByte THEN AbortHypothesis
              ELSE UNCHANGED <<foundMagicByte, validByteIndex, magicByteIndex,
                               result>>
           /\ RefillAt(from)
           /\ maxRead' = Max(Max(maxRead,
                                 bitstreamIndex + (9 + n) * framesPerBit - 1),
                             RefillMaxRead(from))
    /\ pc' = "loop"
    /\ UNCHANGED <<outcome, previousByte, lastByteIndex, insideBuffer, gbArgs,
                   parseVars, mainVars, signVars>>

\* lines 264-278: the byte acquired from c is appended
AcceptByte(c) ==
    /\ validByteIndex' = validByteIndex + 1
    /\ foundMagicByte' = (foundMagicByte \/ ByteVal(c) = magicByte)
    /\ magicByteIndex' = IF ByteVal(c) = magicByte
                         THEN AcceptCursor(c) - framesPerBit * 11
                         ELSE magicByteIndex
    /\ lastByteIndex' = IF validByteIndex' = 5
                        THEN validByteIndex'
                             + ((previousByte * 256 + ByteVal(c)) % 65536) + 4
                        ELSE lastByteIndex
    /\ result' = Append(result, ByteVal(c))
    /\ previousByte' = ByteVal(c)
    /\ maxRead' = Max(maxRead, AcceptCursor(c) - 1)

Accepts(c) ==
    ReachesStopCheck(c) /\ ~StopBitFaults(c) /\ ~StopBitFails(c)

\* lines 264-298: an accepted byte that is neither the last one nor the
\* third program-number digit; the window is refilled
GBAccept ==
    /\ Took("GBAccept")
    /\ AtTrigger
    /\ Accepts(bitstreamIndex)
    /\ AcceptByte(bitstreamIndex)
    /\ ~(lastByteIndex' # 0 /\ validByteIndex' = lastByteIndex')
    /\ validByteIndex' # 3
    /\ sample' = RefillSample(AcceptCursor(bitstreamIndex))
    /\ sampleIndex' = RefillIndex(AcceptCursor(bitstreamIndex))
    /\ signChanges' = sum(sample')
    /\ bitstreamIndex' = AcceptCursor(bitstreamIndex) + framesPerBit
    /\ pc' = "loop"
    /\ UNCHANGED <<outcome, insideBuffer, gbArgs, parseVars, mainVars, signVars>>

\* the byte with ordinal 3 accepted as any other byte is, lines 285-288
\* left out
GBAcceptGuardSkipped ==
    /\ Took("GBAcceptGuard")
    /\ AtTrigger
    /\ Accepts(bitstreamIndex)
    /\ AcceptByte(bitstreamIndex)
    /\ ~(lastByteIndex' # 0 /\ validByteIndex' = lastByteIndex')
    /\ validByteIndex' = 3
    /\ sample' = RefillSample(AcceptCursor(bitstreamIndex))
    /\ sampleIndex' = RefillIndex(AcceptCursor(bitstreamIndex))
    /\ signChanges' = sum(sample')
    /\ bitstreamIndex' = AcceptCursor(bitstreamIndex) + framesPerBit
    /\ pc' = "loop"
    /\ UNCHANGED <<outcome, insideBuffer, gbArgs, parseVars, mainVars, signVars>>

\* lines 285-288: the byte with ordinal 3 opens the guard tone
GBAcceptGuard ==
    /\ Took("GBAcceptGuard")
    /\ AtTrigger
    /\ Accepts(bitstreamIndex)
    /\ AcceptByte(bitstreamIndex)
    /\ ~(lastByteIndex' # 0 /\ validByteIndex' = lastByteIndex')
    /\ validByteIndex' = 3
    /\ insideBuffer' = TRUE
    /\ bitstreamIndex' = AcceptCursor(bitstreamIndex)
    /\ pc' = "loop"
    /\ UNCHANGED <<outcome, sample, sampleIndex, signChanges, gbArgs,
                   parseVars, mainVars, signVars>>

\* lines 280-283 and 304-308: the last byte ends the loop
GBAcceptLast ==
    /\ Took("GBAcceptLast")
    /\ AtTrigger
    /\ Accepts(bitstreamIndex)
    /\ AcceptByte(bitstreamIndex)
    /\ lastByteIndex' # 0 /\ validByteIndex' = lastByteIndex'
    /\ bitstreamIndex' = AcceptCursor(bitstreamIndex)
    /\ GBReturn(Completion(result', lastByteIndex'))
    /\ UNCHANGED <<sample, sampleIndex, signChanges, insideBuffer, gbArgs,
                   parseVars, mainVars, signVars>>

GBNext ==
    \/ GBEnter \/ GBEnterFault \/ GBLoopExit
    \/ GBGuardTraversal \/ GBGuardInvalid \/ GBGuardFault
    \/ GBSlide \/ GBSlideFault \/ GBAdvance
    \/ GBDataBitFault \/ GBDiscard \/ GBProgramAbort
    \/ GBStopBitFault \/ GBStopBitFail
    \/ GBAccept \/ GBAcceptGuard \/ GBAcceptLast

(***************************************************************************)
(* validateBytes, src/main.go lines 348-423.  The argument is the slice    *)
(* data[0:dataLen] of the backing array data; an index expression panics   *)
(* at len(data), a slice expression at cap(data) = Len(data).              *)
(***************************************************************************)
Byte(idx) == data[idx + 1]

\* int8(x): the two's-complement reading of the low 8 bits
Int8(x) == ((x + 128) % 256) - 128

\* binary.BigEndian.Uint16
Uint16(hi, lo) == hi * 256 + lo

\* a body sum that leaves the body bytes out
BodySumOmitted(lo, hi) == 0

\* int8 sum of int8(data[lo]) .. int8(data[hi]), wrapping as the += of
\* lines 386-388 wraps (the wrapping sum is associative)
RECURSIVE BodySum(_, _)
BodySum(lo, hi) ==
    IF lo > hi THEN 0
    ELSE IF lo = hi THEN Int8(Byte(lo))
    ELSE LET mid == (lo + hi) \div 2
         IN  Int8(BodySum(lo, mid) + BodySum(mid + 1, hi))

TotalLinesOf == Uint16(Byte(4), Byte(5))

\* lines 384-392: the body bytes that are not barByte
NoteLinesOf(totalLines) ==
    Cardinality({ k \in 0..(totalLines - 1) : Byte(6 + k) # barByte })

MaxTotalLines == 10000

validateBytes ==
    IF dataLen < 10 THEN "errLen"
    ELSE IF Byte(0) # magicByte THEN "errMagic"
    ELSE IF Byte(1) < 0 \/ Byte(1) > 9 THEN "errDigit1"
    ELSE IF Byte(2) < 0 \/ Byte(2) > 9 THEN "errDigit2"
    ELSE IF Byte(3) < 0 \/ Byte(3) > 9 THEN "errDigit3"
    ELSE LET totalLines == TotalLinesOf
             bytesum == Int8(Int8(Int8(Byte(4)) + Int8(Byte(5)))
                             + BodySum(6, 6 + totalLines - 1))
         IN
         IF totalLines < 0 \/ totalLines > MaxTotalLines THEN "errTotalLines"
         ELSE IF dataLen < totalLines + 6 THEN "errLenBody"
         ELSE IF NoteLinesOf(totalLines) % 3 # 0 THEN "errNoteLines"
         \* line 402: data[6+totalLines]
         ELSE IF 6 + totalLines >= dataLen THEN "fault"
         ELSE IF Int8(Int8(Byte(6 + totalLines)) + bytesum) # 0
              THEN "errChecksum1"
         \* line 408: data[6+totalLines+1 : 6+totalLines+3]
         ELSE IF 6 + totalLines + 3 > Len(data) THEN "fault"
         ELSE IF totalLines # Uint16(Byte(6 + totalLines + 1),
                                     Byte(6 + totalLines + 2))
              THEN "errLineCount"
         \* lines 414-416: data[6+totalLines+1], +2, +3
         ELSE IF 6 + totalLines + 3 >= dataLen THEN "fault"
         ELSE IF Int8(Int8(Int8(Byte(6 + totalLines + 1))
                           + Int8(Byte(6 + totalLines + 2)))
                      + Int8(Byte(6 + totalLines + 3))) # 0
              THEN "errParity"
         ELSE "ok"

(***************************************************************************)
(* validateBytes of src/unnamed/part_000, lines 337-409: total_lines up to *)
(* 999, the running sum an int that starts at totalLines, and the first    *)
(* parity check taken over data[6+totalLines] and data[6+totalLines+1].    *)
(***************************************************************************)
MaxTotalLines000 == 999

\* lines 369-378: the unsigned body bytes summed as ints
RECURSIVE ByteSum000(_, _)
ByteSum000(lo, hi) ==
    IF lo > hi THEN 0
    ELSE IF lo = hi THEN Byte(lo)
    ELSE LET mid == (lo + hi) \div 2
         IN  ByteSum000(lo, mid) + ByteSum000(mid + 1, hi)

validateBytes000 ==
    IF dataLen < 10 THEN "errLen"
    ELSE IF Byte(0) # magicByte THEN "errMagic"
    ELSE IF Byte(1) < 0 \/ Byte(1) > 9 THEN "errDigit1"
    ELSE IF Byte(2) < 0 \/ Byte(2) > 9 THEN "errDigit2"
    ELSE IF Byte(3) < 0 \/ Byte(3) > 9 THEN "errDigit3"
    ELSE LET totalLines == TotalLinesOf
             bytesum == totalLines + ByteSum000(6, 6 + totalLines - 1)
             checksum000 == Int8(bytesum)
         IN
         IF totalLines < 0 \/ totalLines > MaxTotalLines000
              THEN "errTotalLines"
         ELSE IF dataLen < totalLines + 6 THEN "errLenBody"
         ELSE IF NoteLinesOf(totalLines) % 3 # 0 THEN "errNoteLines"
         \* lines 386, 388: data[6+totalLines], data[6+totalLines+1]
         ELSE IF 6 + totalLines + 1 >= dataLen THEN "fault"
         ELSE IF Int8(Int8(Int8(Byte(6 + totalLines))
                           + Int8(Byte(6 + totalLines + 1)))
                      + checksum000) # 0
              THEN "errChecksum1"
         \* line 394: data[6+totalLines+1 : 6+totalLines+3]
         ELSE IF 6 + totalLines + 3 > Len(data) THEN "fault"
         ELSE IF totalLines # Uint16(Byte(6 + totalLines + 1),
                                     Byte(6 + totalLines + 2))
              THEN "errLineCount"
         \* lines 400-402: data[6+totalLines+1], +2, +3
         ELSE IF 6 + totalLines + 3 >= dataLen THEN "fault"
         ELSE IF Int8(Int8(Int8(Byte(6 + totalLines + 1))
                           + Int8(Byte(6 + totalLines + 2)))
                      + Int8(Byte(6 + totalLines + 3))) # 0
              THEN "errParity"
         ELSE "ok"

(***************************************************************************)
(* validateBytes of src/unnamed/part_002, lines 311-383: as part_000, but  *)
(* the sums are taken as ints of int8 values and compared without          *)
(* wrapping.                                                               *)
(***************************************************************************)
MaxTotalLines002 == 999

\* lines 343-352: the int sum of int8(data[6+i])
RECURSIVE ByteSum002(_, _)
ByteSum002(lo, hi) ==
    IF lo > hi THEN 0
    ELSE IF lo = hi THEN Int8(Byte(lo))
    ELSE LET mid == (lo + hi) \div 2
         IN  ByteSum002(lo, mid) + ByteSum002(mid + 1, hi)

validateBytes002 ==
    IF dataLen < 10 THEN "errLen"
    ELSE IF Byte(0) # magicByte THEN "errMagic"
    ELSE IF Byte(1) < 0 \/ Byte(1) > 9 THEN "errDigit1"
    ELSE IF Byte(2) < 0 \/ Byte(2) > 9 THEN "errDigit2"
    ELSE IF Byte(3) < 0 \/ Byte(3) > 9 THEN "errDigit3"
    ELSE LET totalLines == TotalLinesOf
             \* line 358: int(int8(byteSum % 256))
             byteSum == Int8(totalLines + ByteSum002(6, 6 + totalLines - 1))
         IN
         IF totalLines < 0 \/ totalLines > MaxTotalLines002
              THEN "errTotalLines"
         ELSE IF dataLen < totalLines + 6 THEN "errLenBody"
         ELSE IF NoteLinesOf(totalLines) % 3 # 0 THEN "errNoteLines"
         \* lines 360, 362: data[6+totalLines], data[6+totalLines+1]
         ELSE IF 6 + totalLines + 1 >= dataLen THEN "fault"
         \* line 362: the byte sum wraps, the int sum of line 364 does not
         ELSE IF Int8((Byte(6 + totalLines) + Byte(6 + totalLines + 1)) % 256)
                   + byteSum # 0
              THEN "errChecksum1"
         \* line 368: data[6+totalLines+1 : 6+totalLines+3]
         ELSE IF 6 + totalLines + 3 > Len(data) THEN "fault"
         ELSE IF totalLines # Uint16(Byte(6 + totalLines + 1),
                                     Byte(6 + totalLines + 2))
              THEN "errLineCount"
         \* lines 374-376: data[6+totalLines+1], +2, +3
         ELSE IF 6 + totalLines + 3 >= dataLen THEN "fault"
         ELSE IF Int8((Byte(6 + totalLines + 1) + Byte(6 + totalLines + 2))
                      % 256)
                   + Int8(Byte(6 + totalLines + 3)) # 0
              THEN "errParity"
         ELSE "ok"

(***************************************************************************)
(* parseBytes, src/main.go lines 425-471                                   *)
(***************************************************************************)
noteNames == <<"C", "C#", "D", "D#", "E", "F", "F#", "G", "G#", "A", "A#", "B">>

\* a note map whose octaves count from 0
noteMapOctaveFromZero(n) ==
    [NoteNum |-> n, NoteName |-> noteNames[(n % 12) + 1], Octave |-> n \div 12]

\* buildNoteMap, lines 32-45
noteMap(n) == [NoteNum |-> n, NoteName |-> noteNames[(n % 12) + 1],
               Octave |-> (n \div 12) + 1]

\* NoteLine{Bar: true}
BarLine == [NoteNum |-> 0, NoteName |-> "", Octave |-> 0, StepLength |-> 0,
            GateLength |-> 0, Portamento |-> FALSE, Accent |-> FALSE,
            Bar |-> TRUE]

\* lines 451-461
NoteLineOf(step, gate, flags) ==
    LET noteNum == flags % 64
    IN  [NoteNum |-> noteNum,
         NoteName |-> noteMap(noteNum).NoteName,
         Octave |-> noteMap(noteNum).Octave,
         StepLength |-> step,
         GateLength |-> gate,
         Portamento |-> (flags \div 128) % 2 # 0,
         Accent |-> (flags \div 64) % 2 # 0,
         Bar |-> FALSE]

MaxNotes == 5

PReturn(e) == /\ ppc' = "done"
              /\ perr' = e

\* lines 426-428: validateBytes returns an error, or panics
PValidateFails ==
    /\ ppc = "validate"
    /\ validateBytes # "ok"
    /\ PReturn(validateBytes)
    /\ UNCHANGED <<data, dataLen, variant, i, sequence, checksum, gbVars, mainVars, signVars>>

\* lines 426-438
PValidateOk ==
    /\ ppc = "validate"
    /\ validateBytes = "ok"
    /\ sequence' = [MagicByte |-> Byte(0),
                    ProgramNumber |-> Byte(1) * 100 + Byte(2) * 10 + Byte(3),
                    TotalLines |-> Uint16(Byte(4), Byte(5)),
                    Notes |-> <<>>,
                    Checksum |-> 0, ChecksumByte |-> 0, TotalLines2 |-> 0,
                    ParityByte |-> 0]
    /\ checksum' = Int8(Int8(Byte(4)) + Int8(Byte(5)))
    /\ i' = 6
    /\ ppc' = "walk"
    /\ UNCHANGED <<data, dataLen, variant, perr, gbVars, mainVars, signVars>>

\* lines 440-445: a bar; "continue" leaves i where it is
PBar ==
    /\ ppc = "walk"
    /\ i < dataLen - 4
    /\ Byte(i) = barByte
    /\ Len(sequence.Notes) < MaxNotes
    /\ checksum' = Int8(checksum + Int8(Byte(i)))
    /\ sequence' = [sequence EXCEPT !.Notes = Append(@, BarLine)]
    /\ UNCHANGED <<data, dataLen, variant, ppc, i, perr, gbVars, mainVars, signVars>>

\* a walk that takes a record while i <= len(data)-4
PNoteInclusive ==
    /\ ppc = "walk"
    /\ i <= dataLen - 4
    /\ i + 2 < dataLen
    /\ Byte(i) # barByte
    /\ checksum' = Int8(Int8(Int8(checksum + Int8(Byte(i)))
                             + Int8(Byte(i + 1))) + Int8(Byte(i + 2)))
    /\ sequence' = [sequence EXCEPT
                      !.Notes = Append(@, NoteLineOf(Byte(i), Byte(i + 1),
                                                     Byte(i + 2)))]
    /\ i' = i + 3
    /\ UNCHANGED <<data, dataLen, variant, ppc, perr, gbVars, mainVars, signVars>>

\* lines 447-462: a three-byte note record
PNote ==
    /\ ppc = "walk"
    /\ i < dataLen - 4
    /\ Byte(i) # barByte
    /\ checksum' = Int8(Int8(Int8(checksum + Int8(Byte(i)))
                             + Int8(Byte(i + 1))) + Int8(Byte(i + 2)))
    /\ sequence' = [sequence EXCEPT
                      !.Notes = Append(@, NoteLineOf(Byte(i), Byte(i + 1),
                                                     Byte(i + 2)))]
    /\ i' = i + 3
    /\ UNCHANGED <<data, dataLen, variant, ppc, perr, gbVars, mainVars, signVars>>

\* lines 465-470
PFinish ==
    /\ ppc = "walk"
    /\ i >= dataLen - 4
    /\ i + 3 < dataLen
    /\ sequence' = [sequence EXCEPT
                      !.Checksum = checksum % 256,
                      !.ChecksumByte = Byte(i),
                      !.TotalLines2 = Uint16(Byte(i + 1), Byte(i + 2)),
                      !.ParityByte = Byte(i + 3)]
    /\ PReturn("ok")
    /\ UNCHANGED <<data, dataLen, variant, i, checksum, gbVars, mainVars, signVars>>

\* line 467 or 468 panics: the walk ended beyond len(data)-4
PFinishFault ==
    /\ ppc = "walk"
    /\ i >= dataLen - 4
    /\ i + 3 >= dataLen
    /\ PReturn("fault")
    /\ UNCHANGED <<data, dataLen, variant, i, sequence, checksum, gbVars, mainVars, signVars>>

ParseNext ==
    \/ PValidateFails \/ PValidateOk \/ PBar \/ PNote \/ PFinish
    \/ PFinishFault

(***************************************************************************)
(* Transition bitstreams the framer is run on.  A stream is written as a   *)
(* sequence of tone windows, each FramesPerBit(TestFramerate) transitions  *)
(* wide: 1 is a "1" tone (every frame a sign change), 0 is a "0" tone (a   *)
(* sign change every other frame), 2 is silence.  Bytes are framed as the  *)
(* encoder of src/main.go frames them.                                     *)
(***************************************************************************)
TestFramerate == 4740
CapSlack == 16
ShortLeader == 2
LongLeader == 10
ShortGap == 4
LongGap == 60

SymWidth == FramesPerBit(TestFramerate)

SymBits(syms) ==
    [n \in 1..(Len(syms) * SymWidth) |->
        LET s == syms[((n - 1) \div SymWidth) + 1]
            j == (n - 1) % SymWidth
        IN  ToneBit(s, j)]

Rep(sym, n) == [k \in 1..n |-> sym]

DataSyms(b) == [k \in 1..8 |-> (b \div BitMasks[k]) % 2]

\* generateByteSequence: start bit, 8 data bits LSB first, two stop bits
ByteFrame(b) == <<0>> \o DataSyms(b) \o <<1, 1>>

\* generateLastByte: start bit and 8 data bits, no stop bits
LastFrame(b) == <<0>> \o DataSyms(b)

\* generateEmptySequence: the frames of a payload, the guard tone after the
\* program number
RECURSIVE Frames(_, _)
Frames(bytes, k) ==
    IF k > Len(bytes) THEN <<>>
    ELSE IF k = Len(bytes) THEN LastFrame(bytes[k])
    ELSE ByteFrame(bytes[k])
         \o (IF k = 4 THEN Rep(1, dataBufferLength) ELSE <<>>)
         \o Frames(bytes, k + 1)

PayloadSyms(bytes, leader, tail) ==
    Rep(1, leader) \o Frames(bytes, 1) \o Rep(0, tail)

\* the sum of s[lo..hi], halving the range
RECURSIVE RangeSum(_, _, _)
RangeSum(s, lo, hi) ==
    IF lo > hi THEN 0
    ELSE IF lo = hi THEN s[lo]
    ELSE LET mid == (lo + hi) \div 2
         IN  RangeSum(s, lo, mid) + RangeSum(s, mid + 1, hi)

\* a payload in the wire format validateBytes accepts
PayloadBytes(prog, body) ==
    LET n == Len(body)
        hi == n \div 256
        lo == n % 256
    IN  <<magicByte>> \o prog \o <<hi, lo>> \o body
        \o <<(1024 * 256 - (hi + lo + RangeSum(body, 1, n))) % 256, hi, lo,
             (512 - (hi + lo)) % 256>>

EmptyPayload == PayloadBytes(<<1, 2, 3>>, <<>>)
OneNotePayload == PayloadBytes(<<0, 0, 9>>, <<24, 12, 26>>)

GBInput(k, syms, bytes) == [kind |-> k, bits |-> SymBits(syms), payload |-> bytes]

CleanInputs ==
    { GBInput("clean", PayloadSyms(b, ShortLeader, t), b) :
        b \in {EmptyPayload, OneNotePayload}, t \in {0, 1} }

\* a clean stream cut short: at the very start, or off transitions into
\* window w after the leader (inside data bits, stop bits, the guard tone,
\* and just after it)
HeadCuts == {0, 3, SymWidth - 1}
TruncCuts == { <<3, 0>>, <<10, 4>>, <<11, 1>>, <<22, 3>>, <<60, 4>>,
               <<166, 1>>, <<177, 3>> }

Truncate(stream, n) == [k \in 1..n |-> stream[k]]

TruncatedInputs ==
    LET full == SymBits(PayloadSyms(EmptyPayload, ShortLeader, 1))
    IN  { [kind |-> "truncated", bits |-> Truncate(full, n),
           payload |-> EmptyPayload] :
            n \in HeadCuts
                  \cup { (ShortLeader + c[1]) * SymWidth + c[2] : c \in TruncCuts } }

\* a framed magic byte and then nothing but the "1" tone
MagicOnlyInputs ==
    { GBInput("magiconly",
              Rep(1, ShortLeader) \o ByteFrame(magicByte) \o Rep(1, 4),
              <<>>) }

\* a prefix holding no framed magic byte, then a clean stream
Prefixes == { <<0, 0>>, <<1>>, <<1, 0>> }

PrefixedInputs ==
    { GBInput("prefixed", pre \o PayloadSyms(EmptyPayload, LongLeader, 1),
              EmptyPayload) : pre \in Prefixes }
    \cup { GBInput("clean", PayloadSyms(EmptyPayload, LongLeader, 1),
                   EmptyPayload) }

\* a framed 0xE0, d program digits and then a byte >= 10, a stretch of the
\* "1" tone gap windows long, and a clean stream
FalseMagicSyms(d, bad, gap) ==
    Rep(1, ShortLeader) \o ByteFrame(magicByte)
    \o (IF d >= 1 THEN ByteFrame(1) ELSE <<>>)
    \o (IF d >= 2 THEN ByteFrame(2) ELSE <<>>)
    \o ByteFrame(bad)
    \o PayloadSyms(EmptyPayload, gap, 1)

FalseMagicInputs ==
    { GBInput("falsemagic", FalseMagicSyms(c[1], c[2], c[3]), EmptyPayload) :
        c \in { <<0, 10, LongGap>>, <<1, 10, LongGap>>, <<2, 10, LongGap>>,
                <<0, 255, ShortGap>>, <<1, 10, ShortGap>> } }

\* a clean stream whose body holds a byte equal to the magic byte
MagicBodyPayload == PayloadBytes(<<0, 0, 9>>, <<24, magicByte, 26>>)

MagicBodyInputs ==
    { GBInput("clean", PayloadSyms(MagicBodyPayload, ShortLeader, 1),
              MagicBodyPayload) }

\* a framed 0xE0 and a program digit whose stop bit number bad is a "0"
\* tone, a stretch of the "1" tone, and a clean stream
BrokenStopSyms(bad) ==
    Rep(1, ShortLeader) \o ByteFrame(magicByte)
    \o <<0>> \o DataSyms(1) \o (IF bad = 0 THEN <<0, 1>> ELSE <<1, 0>>)
    \o PayloadSyms(EmptyPayload, LongGap, 1)

BrokenStopInputs ==
    { GBInput("brokenstop", BrokenStopSyms(bad), EmptyPayload) :
        bad \in {0, 1} }

\* a sequence abandoned after its length field, at a trailer byte whose
\* first stop bit is a "0" tone, a stretch of the "1" tone, and a clean
\* stream: lastByteIndex is left over from the abandoned sequence
StaleLengthSyms ==
    Rep(1, ShortLeader) \o ByteFrame(magicByte)
    \o ByteFrame(1) \o ByteFrame(2) \o ByteFrame(3)
    \o Rep(1, dataBufferLength)
    \o ByteFrame(0) \o ByteFrame(0)
    \o <<0>> \o DataSyms(0) \o <<0, 1>>
    \o PayloadSyms(OneNotePayload, LongGap, 1)

StaleLengthInputs ==
    { GBInput("stalelength", StaleLengthSyms, OneNotePayload) }

GBInputs ==
    CleanInputs \cup TruncatedInputs \cup MagicOnlyInputs
    \cup PrefixedInputs \cup FalseMagicInputs
    \cup MagicBodyInputs \cup BrokenStopInputs \cup StaleLengthInputs

\* the long stream: its transitions are given by LongSym and are not copied
\* into the state
LongInputs == { [kind |-> "long", bits |-> <<>>, payload |-> <<>>] }

GBInitOn(inputs) ==
    /\ \E in \in inputs :
         /\ bitstream = in.bits
         /\ kind = in.kind
         /\ payload = in.payload
    /\ framerate = TestFramerate
    /\ capacity \in {BitstreamLen, BitstreamLen + CapSlack}
    /\ pc = "entry"
    /\ outcome = "none"
    /\ sample = <<>>
    /\ sampleIndex = 0
    /\ signChanges = 0
    /\ bitstreamIndex = 0
    /\ result = <<>>
    /\ foundMagicByte = FALSE
    /\ magicByteIndex = 0
    /\ previousByte = 0
    /\ validByteIndex = -1
    /\ lastByteIndex = 0
    /\ insideBuffer = FALSE
    /\ maxRead = -1
    /\ branch = NoBranch

GBInit == GBInitOn(GBInputs)

ParseIdle ==
    /\ data = <<>>
    /\ dataLen = 0
    /\ variant = "main.go"
    /\ ppc = "idle"
    /\ i = 0
    /\ sequence = <<>>
    /\ checksum = 0
    /\ perr = "none"

MainIdle ==
    /\ mpc = "none"
    /\ calls = <<>>
    /\ SignIdle

InitGB == GBInit /\ ParseIdle /\ MainIdle

SpecGB == InitGB /\ [][GBNext]_vars

\* generateBytes on the streams above and on the long stream
InitGBLong == GBInitOn(GBInputs \cup LongInputs) /\ ParseIdle /\ MainIdle

SpecGBLong == InitGBLong /\ [][GBNext]_vars

\* generateBytes is one sequential call: a step that can be taken is taken
SpecGBFair == SpecGB /\ WF_vars(GBNext)

\* a clean stream decodes to the payload it was synthesized from
CleanDecodes ==
    (pc = "done" /\ kind = "clean") => (outcome = "ok" /\ result = payload)


(***************************************************************************)
(* Byte sequences validateBytes and parseBytes are run on                  *)
(***************************************************************************)
\* bodies: none, one note, a bar and two notes, two notes holding 0xFF as
\* gate and flags bytes, a bar and one note
Bodies ==
    { <<>>, <<24, 12, 26>>, <<255, 24, 12, 26, 24, 12, 26>>,
      <<24, 255, 255, 24, 255, 218>>, <<255, 24, 12, 26>> }

WellFormed == { PayloadBytes(<<1, 2, 3>>, b) : b \in Bodies }

\* bytes that follow the trailer of a well-formed payload
Extras == { <<>>, <<0, 0, 0>>, <<1, 1, 1>>, <<7>>, <<255, 0, 0>> }

ByteInput(arr, n) == [arr |-> arr, len |-> n]

\* a well-formed payload, as it is or followed by further bytes
ExtendedInputs ==
    { ByteInput(w \o x, Len(w) + Len(x)) : w \in WellFormed, x \in Extras }

\* the first n bytes of a well-formed payload, the rest of it beyond
\* len(data) in the backing array or not there at all
CutInputs ==
    UNION { { ByteInput(IF whole THEN w ELSE SubSeq(w, 1, n), n) :
                n \in 0..(Len(w) - 1), whole \in BOOLEAN } :
            w \in WellFormed }

\* a well-formed payload with one byte replaced
Replace(w, k, b) == [w EXCEPT ![k] = b]
DamagedInputs ==
    UNION { { ByteInput(Replace(w, k, b), Len(w)) :
                k \in 1..Len(w), b \in {0, 10, 224, 255} } :
            w \in WellFormed }

\* the empty sequence under other program numbers
EmptyInputs ==
    { ByteInput(PayloadBytes(prog, <<>>), 10) :
        prog \in { <<0, 0, 0>>, <<0, 4, 2>>, <<9, 9, 9>> } }

ParseInputs == ExtendedInputs \cup CutInputs \cup DamagedInputs
               \cup EmptyInputs

GBIdle ==
    /\ bitstream = <<>>
    /\ capacity = 0
    /\ framerate = TestFramerate
    /\ kind = "none"
    /\ payload = <<>>
    /\ pc = "idle"
    /\ outcome = "none"
    /\ sample = <<>>
    /\ sampleIndex = 0
    /\ signChanges = 0
    /\ bitstreamIndex = 0
    /\ result = <<>>
    /\ foundMagicByte = FALSE
    /\ magicByteIndex = 0
    /\ previousByte = 0
    /\ validByteIndex = -1
    /\ lastByteIndex = 0
    /\ insideBuffer = FALSE
    /\ maxRead = -1
    /\ branch = NoBranch

InitParse ==
    /\ \E in \in ParseInputs :
         /\ data = in.arr
         /\ dataLen = in.len
    /\ variant = "main.go"
    /\ ppc = "validate"
    /\ i = 0
    /\ sequence = <<>>
    /\ checksum = 0
    /\ perr = "none"
    /\ GBIdle
    /\ MainIdle

SpecParse == InitParse /\ [][ParseNext]_vars

(***************************************************************************)
(* validateBytes on its own, as each of the source files has it.  kind     *)
(* says how the byte sequence was made and payload is the encoded payload  *)
(* it was made from.                                                       *)
(***************************************************************************)
\* a body of n bytes whose note-line count is a multiple of 3: n % 3 bars
\* followed by zero bytes
ZeroBody(n) == [k \in 1..n |-> IF k <= n % 3 THEN barByte ELSE 0]

\* body lengths beyond one byte of length field and around the limits of
\* total_lines; 128 and 383 have length bytes that sum to 128
LongBodyLengths == {128, 258, 383, 999, 1000, 1002}

ShortBases == WellFormed \cup { PayloadBytes(<<0, 0, 9>>, <<24, 12, 127>>) }
LongBases == { PayloadBytes(<<1, 2, 3>>, ZeroBody(n)) : n \in LongBodyLengths }

ValidateInput(k, arr, base) ==
    [kind |-> k, arr |-> arr, len |-> Len(arr), payload |-> base]

\* bit k of byte b inverted
FlipBit(b, k) == IF (b \div (2 ^ k)) % 2 = 1 THEN b - 2 ^ k ELSE b + 2 ^ k

BodyLen(w) == Len(w) - 10

AsIsInputs == { ValidateInput("asis", w, w) : w \in ShortBases \cup LongBases }

\* one of the four trailer bytes replaced by any byte value
TrailerInputs ==
    UNION { { ValidateInput("trailer", Replace(w, 6 + BodyLen(w) + t, b), w) :
                t \in 1..4, b \in 0..255 } :
            w \in ShortBases \cup
                  { PayloadBytes(<<1, 2, 3>>, ZeroBody(n)) : n \in {128, 258} } }

\* one bit of one body byte inverted
BodyFlipInputs ==
    UNION { { ValidateInput("bodyflip",
                            Replace(w, 6 + k, FlipBit(w[6 + k], bit)), w) :
                k \in 1..BodyLen(w), bit \in 0..7 } :
            w \in ShortBases }

\* one bit of one byte of the length copy inverted
CopyFlipInputs ==
    UNION { { ValidateInput("copyflip",
                            Replace(w, 6 + BodyLen(w) + 1 + c,
                                    FlipBit(w[6 + BodyLen(w) + 1 + c], bit)),
                            w) :
                c \in 1..2, bit \in 0..7 } :
            w \in ShortBases \cup
                  { PayloadBytes(<<1, 2, 3>>, ZeroBody(n)) : n \in {258} } }

\* one byte replaced, the first n bytes only, or the header length field
\* set to a value of 1000 or more
OtherInputs ==
    { ValidateInput("damaged", in.arr, in.arr) : in \in DamagedInputs }
    \cup { ValidateInput("cut", SubSeq(in.arr, 1, in.len), in.arr) :
             in \in CutInputs }
    \cup UNION { { ValidateInput("length",
                                 [w EXCEPT ![5] = n \div 256, ![6] = n % 256],
                                 w) : n \in {1000, 10000, 10001, 65535} } :
                 w \in ShortBases }

ValidateInputs ==
    AsIsInputs \cup TrailerInputs \cup BodyFlipInputs \cup CopyFlipInputs
    \cup OtherInputs

Variants == {"main.go", "part_000", "part_002"}

InitValidate ==
    /\ \E in \in ValidateInputs :
         /\ data = in.arr
         /\ dataLen = in.len
         /\ kind = in.kind
         /\ payload = in.payload
    /\ variant \in Variants
    /\ ppc = "validate"
    /\ i = 0
    /\ sequence = <<>>
    /\ checksum = 0
    /\ perr = "none"
    /\ bitstream = <<>>
    /\ capacity = 0
    /\ framerate = TestFramerate
    /\ pc = "idle"
    /\ outcome = "none"
    /\ sample = <<>>
    /\ sampleIndex = 0
    /\ signChanges = 0
    /\ bitstreamIndex = 0
    /\ result = <<>>
    /\ foundMagicByte = FALSE
    /\ magicByteIndex = 0
    /\ previousByte = 0
    /\ validByteIndex = -1
    /\ lastByteIndex = 0
    /\ insideBuffer = FALSE
    /\ maxRead = -1
    /\ branch = NoBranch
    /\ MainIdle

\* validateBytes of src/main.go returns
ValidateMain ==
    /\ ppc = "validate"
    /\ variant = "main.go"
    /\ PReturn(validateBytes)
    /\ UNCHANGED <<data, dataLen, variant, i, sequence, checksum, gbVars,
                   mainVars, signVars>>

\* validateBytes of src/unnamed/part_000 returns
Validate000 ==
    /\ ppc = "validate"
    /\ variant = "part_000"
    /\ PReturn(validateBytes000)
    /\ UNCHANGED <<data, dataLen, variant, i, sequence, checksum, gbVars,
                   mainVars, signVars>>

\* validateBytes of src/unnamed/part_002 returns
Validate002 ==
    /\ ppc = "validate"
    /\ variant = "part_002"
    /\ PReturn(validateBytes002)
    /\ UNCHANGED <<data, dataLen, variant, i, sequence, checksum, gbVars,
                   mainVars, signVars>>

ValidateNext == ValidateMain \/ Validate000 \/ Validate002

SpecValidate == InitValidate /\ [][ValidateNext]_vars

\* the encoded payloads are accepted, wherever total_lines is in range and
\* the sum of the two length bytes is not 128
BasesAccepted ==
    (ppc = "done" /\ kind = "asis") =>
       \/ perr = "ok"
       \/ variant # "main.go" /\ TotalLinesOf > 999
       \/ variant = "part_002" /\ (Byte(4) + Byte(5)) % 256 = 128


(***************************************************************************)
(* PCM sources generateSignChangeBits is run on                            *)
(***************************************************************************)
\* the least and the greatest sample of a bit depth
LeastSample(d) == 0 - 2 ^ (d - 2) - 2 ^ (d - 2)
GreatestSample(d) == (2 ^ (d - 2) - 1) + 2 ^ (d - 2)

\* in-range samples: the extremes, -1, 0 and the greatest sample whose
\* most significant byte is 0
SampleValues(d) ==
    <<LeastSample(d), 0, -1, 2 ^ (d - 8) - 1, GreatestSample(d)>>

\* a track of len samples that walks through SampleValues(d)
Track(d, len, stride) ==
    [k \in 1..len |-> SampleValues(d)[((k * stride) % 5) + 1]]

PcmSources(d) ==
    { <<>> }
    \cup { <<SampleValues(d)[a]>> : a \in 1..5 }
    \cup { <<SampleValues(d)[a], SampleValues(d)[b]>> : a \in 1..5, b \in 1..5 }
    \cup { Track(d, len, stride) : len \in {3, 4, 5, 6, 9}, stride \in {1, 3} }

\* a bit depth of 8 is read with 16-bit sample values
ValueDepth(d) == IF d \in SupportedDepths THEN d ELSE 16

Decoders ==
    UNION { { [NumChans |-> c, BitDepth |-> d, pcm |-> src, pos |-> p,
               reads |-> 0, failAt |-> f] :
                c \in 1..3, src \in PcmSources(ValueDepth(d)),
                p \in {0, 1}, f \in 0..2 } :
            d \in SupportedDepths \cup {8} }

InitSign ==
    /\ decoder \in { dec \in Decoders : dec.pos <= Len(dec.pcm) }
    /\ offset \in BOOLEAN
    /\ buf = <<>>
    /\ nread = 0
    /\ bi = 0
    /\ previous = 0
    /\ bits = <<>>
    /\ processed = <<>>
    /\ spc = "entry"
    /\ sret = "none"
    /\ GBIdle
    /\ ParseIdle
    /\ mpc = "none"
    /\ calls = <<>>

SpecSign == InitSign /\ [][SignNext]_vars


(***************************************************************************)
(* The decode path of main, src/main.go lines 582-621.  What               *)
(* generateSignChangeBits makes of the WAV file is not followed here: a    *)
(* call returns an error or any of the transition bitstreams of MainInputs.*)
(* generateBytes and parseBytes run as modelled above.                     *)
(***************************************************************************)
BarPayload == PayloadBytes(<<0, 0, 0>>, <<255, 24, 12, 26>>)
OddPayload == PayloadBytes(<<0, 0, 0>>, <<24, 255, 12, 26>>)

MainInputs ==
    TruncatedInputs \cup MagicOnlyInputs
    \cup { GBInput("clean", PayloadSyms(b, ShortLeader, 1), b) :
             b \in {EmptyPayload, OneNotePayload, BarPayload, OddPayload} }
    \cup { GBInput("falsemagic", FalseMagicSyms(1, 10, ShortGap), EmptyPayload) }

Call(fn, arg) == [fn |-> fn, arg |-> arg, ret |-> "pending"]

Returned(r) == [calls EXCEPT ![Len(calls)].ret = r]

\* generateBytes(signBits, int(sampleRate)) is entered
EnterGenerateBytes(in, cap) ==
    /\ bitstream' = in.bits
    /\ kind' = in.kind
    /\ payload' = in.payload
    /\ capacity' = cap
    /\ pc' = "entry"
    /\ outcome' = "none"
    /\ UNCHANGED <<framerate, sample, sampleIndex, signChanges,
                   bitstreamIndex, result, foundMagicByte, magicByteIndex,
                   previousByte, validByteIndex, lastByteIndex, insideBuffer,
                   maxRead, branch>>

\* lines 582-588: generateSignChangeBits(decoder, false) succeeds
MainSignBits ==
    /\ mpc = "start"
    /\ \E in \in MainInputs :
         \E cap \in {Len(in.bits), Len(in.bits) + CapSlack} :
            EnterGenerateBytes(in, cap)
    /\ calls' = calls \o <<[Call("generateSignChangeBits", FALSE)
                               EXCEPT !.ret = "ok"],
                           Call("generateBytes", FALSE)>>
    /\ mpc' = "generateBytes1"
    /\ UNCHANGED <<parseVars, signVars>>

\* lines 582-586: generateSignChangeBits(decoder, false) fails, os.Exit(1)
MainSignBitsError ==
    /\ mpc = "start"
    /\ calls' = Append(calls, [Call("generateSignChangeBits", FALSE)
                                 EXCEPT !.ret = "err"])
    /\ mpc' = "exit"
    /\ UNCHANGED <<gbVars, parseVars, signVars>>

\* parseBytes(bytes) is entered
EnterParseBytes ==
    /\ data' = result
    /\ dataLen' = Len(result)
    /\ ppc' = "validate"
    /\ UNCHANGED <<variant, i, sequence, checksum, perr>>

\* lines 588-589 false or 599-600 false, then line 617
MainGenerated ==
    /\ mpc \in {"generateBytes1", "generateBytes2"}
    /\ pc = "done"
    /\ outcome = "ok"
    /\ EnterParseBytes
    /\ calls' = Append(Returned(outcome), Call("parseBytes", FALSE))
    /\ mpc' = "parseBytes"
    /\ UNCHANGED <<gbVars, signVars>>

\* lines 589-599: the first generateBytes returned an error; the bits are
\* generated again with offset = true
MainRetry ==
    /\ mpc = "generateBytes1"
    /\ pc = "done"
    /\ outcome \in {"errBytes", "errBuffer"}
    /\ \E in \in MainInputs :
         \E cap \in {Len(in.bits), Len(in.bits) + CapSlack} :
            EnterGenerateBytes(in, cap)
    /\ calls' = Returned(outcome)
                \o <<[Call("generateSignChangeBits", TRUE)
                        EXCEPT !.ret = "ok"],
                     Call("generateBytes", TRUE)>>
    /\ mpc' = "generateBytes2"
    /\ UNCHANGED <<parseVars, signVars>>

\* lines 593-597: generateSignChangeBits(decoder, true) fails, os.Exit(1)
MainRetrySignBitsError ==
    /\ mpc = "generateBytes1"
    /\ pc = "done"
    /\ outcome \in {"errBytes", "errBuffer"}
    /\ calls' = Append(Returned(outcome),
                       [Call("generateSignChangeBits", TRUE)
                          EXCEPT !.ret = "err"])
    /\ mpc' = "exit"
    /\ UNCHANGED <<gbVars, parseVars, signVars>>

\* lines 600-603: the second generateBytes returned an error, os.Exit(1)
MainSecondFailed ==
    /\ mpc = "generateBytes2"
    /\ pc = "done"
    /\ outcome \in {"errBytes", "errBuffer"}
    /\ calls' = Returned(outcome)
    /\ mpc' = "exit"
    /\ UNCHANGED <<gbVars, parseVars, signVars>>

\* generateBytes panics: the program ends there
MainGeneratePanics ==
    /\ mpc \in {"generateBytes1", "generateBytes2"}
    /\ pc = "done"
    /\ outcome = "fault"
    /\ calls' = Returned(outcome)
    /\ mpc' = "panic"
    /\ UNCHANGED <<gbVars, parseVars, signVars>>

\* lines 617-625: parseBytes returned a Sequence, which is printed
MainParsed ==
    /\ mpc = "parseBytes"
    /\ ppc = "done"
    /\ perr = "ok"
    /\ calls' = Returned(perr)
    /\ mpc' = "printed"
    /\ UNCHANGED <<gbVars, parseVars, signVars>>

\* a decode path in which an error of parseBytes starts another attempt
MainParseFailedRetries ==
    /\ mpc = "parseBytes"
    /\ ppc = "done"
    /\ perr \notin {"ok", "fault"}
    /\ \E in \in MainInputs : EnterGenerateBytes(in, Len(in.bits))
    /\ calls' = Returned(perr)
                \o <<[Call("generateSignChangeBits", TRUE)
                        EXCEPT !.ret = "ok"],
                     Call("generateBytes", TRUE)>>
    /\ mpc' = "generateBytes2"
    /\ UNCHANGED <<parseVars, signVars>>

\* lines 618-621: parseBytes returned an error, os.Exit(1)
MainParseFailed ==
    /\ mpc = "parseBytes"
    /\ ppc = "done"
    /\ perr \notin {"ok", "fault"}
    /\ calls' = Returned(perr)
    /\ mpc' = "exit"
    /\ UNCHANGED <<gbVars, parseVars, signVars>>

\* parseBytes panics: the program ends there
MainParsePanics ==
    /\ mpc = "parseBytes"
    /\ ppc = "done"
    /\ perr = "fault"
    /\ calls' = Returned(perr)
    /\ mpc' = "panic"
    /\ UNCHANGED <<gbVars, parseVars, signVars>>

MainNext ==
    \/ MainSignBits \/ MainSignBitsError \/ MainGenerated \/ MainRetry
    \/ MainRetrySignBitsError \/ MainSecondFailed \/ MainGeneratePanics
    \/ MainParsed \/ MainParseFailed \/ MainParsePanics
    \/ GBNext \/ ParseNext

InitMain ==
    /\ mpc = "start"
    /\ calls = <<>>
    /\ SignIdle
    /\ GBIdle
    /\ ParseIdle

SpecMain == InitMain /\ [][MainNext]_vars


(***************************************************************************)
(* Properties                                                              *)
(***************************************************************************)

\* C1: generateBytes never reads the bitstream at an index >= len(bitstream)
\* and never faults; when the stream runs out before validByteIndex has
\* reached lastByteIndex it returns the "invalid number of bytes" error.
C1_ShortStreamReturnsError ==
    /\ maxRead < BitstreamLen
    /\ (pc = "done" /\ outcome # "errBuffer"
        /\ (lastByteIndex = 0 \/ validByteIndex < lastByteIndex))
          => outcome = "errBytes"

\* C2: whenever generateBytes returns success the length field has been
\* read (lastByteIndex is not the sentinel 0) and the payload has exactly
\* 6 + N + 4 bytes, N the big-endian length in result[4..6].
C2_SuccessHasLengthField ==
    (pc = "done" /\ outcome = "ok") =>
        /\ lastByteIndex # 0
        /\ Len(result) >= 10
        /\ Len(result) = 6 + Uint16(result[5], result[6]) + 4

\* C3: a stream made of a prefix without framed magic byte and a clean
\* stream decodes to the bytes the clean stream alone decodes to (its
\* payload, by CleanDecodes).
C3_PrefixResync ==
    (pc = "done" /\ kind = "prefixed") =>
        (outcome = "ok" /\ result = payload)

\* C4: after a framed 0xE0 whose hypothesis is given up at a program-number
\* byte >= 10, the real magic byte later in the stream is still found and
\* its payload is returned in full.
C4_FalseMagicResync ==
    (pc = "done" /\ kind = "falsemagic") =>
        (outcome = "ok" /\ result = payload)

\* C5: main calls generateBytes at most twice, first on the bits of
\* generateSignChangeBits(offset=false); it generates bits with offset=true
\* and tries again if and only if the first generateBytes returned an error;
\* a failed second attempt exits without parsing; parseBytes is called only
\* after a generateBytes that succeeded, and nothing is called after it.
GenerateErrors == {"errBytes", "errBuffer"}

C5_RetryProtocol ==
    LET n == Len(calls)
        gen == { k \in 1..n : calls[k].fn = "generateBytes" }
    IN  /\ Cardinality(gen) <= 2
        /\ n >= 1 => (calls[1].fn = "generateSignChangeBits"
                      /\ calls[1].arg = FALSE)
        /\ \A k \in gen : /\ k > 1
                          /\ calls[k - 1].fn = "generateSignChangeBits"
                          /\ calls[k - 1].ret = "ok"
                          /\ calls[k - 1].arg = calls[k].arg
                          /\ calls[k].arg = (k # 2)
        /\ \A k \in 1..n :
              (calls[k].fn = "generateSignChangeBits" /\ calls[k].arg)
                 <=> (k = 3 /\ calls[2].ret \in GenerateErrors)
        /\ (n >= 2 /\ calls[2].ret \in GenerateErrors) => n >= 3
        /\ \A k \in gen :
              (calls[k].arg /\ calls[k].ret \in GenerateErrors)
                 => (k = n /\ mpc = "exit")
        /\ \A k \in 1..n :
              calls[k].fn = "parseBytes" =>
                 /\ k = n
                 /\ k - 1 \in gen
                 /\ calls[k - 1].ret = "ok"
                 /\ (calls[k].ret \notin {"ok", "pending", "fault"}
                       => mpc = "exit")

\* the second attempt succeeded where the first failed, and parseBytes then
\* rejected the bytes
C5_Witness ==
    /\ Len(calls) = 5
    /\ calls[2].ret \in GenerateErrors
    /\ calls[4].ret = "ok"
    /\ calls[5].fn = "parseBytes"
    /\ calls[5].ret \notin {"ok", "pending", "fault"}
    /\ mpc = "exit"

\* C6: for every byte sequence shorter than total_lines + 6 + 4,
\* validateBytes returns an error and does not fault.
C6_ShortPayloadRejected ==
    (ppc = "done" /\ (dataLen < 10 \/ dataLen < TotalLinesOf + 10))
       => perr \notin {"ok", "fault"}

\* C7: at a 0xFF byte parseBytes appends exactly one bar marker and moves
\* its cursor on by 1.
C7_BarAdvancesCursor ==
    [][(ppc = "walk" /\ i < dataLen - 4 /\ Byte(i) = barByte)
          => (/\ i' = i + 1
              /\ sequence'.Notes = Append(sequence.Notes, BarLine))]_vars

\* C8: validateBytes accepts a byte sequence if and only if parseBytes
\* returns a Sequence for it.
C8_ValidateIffParse ==
    (ppc = "done") => ((validateBytes = "ok") <=> (perr = "ok"))

\* C9: in every Sequence parseBytes returns, bars + 3 x notes = TotalLines.
BarCount(notes) == Cardinality({ k \in 1..Len(notes) : notes[k].Bar })
NoteCount(notes) == Cardinality({ k \in 1..Len(notes) : ~notes[k].Bar })

C9_NotesTileBody ==
    (ppc = "done" /\ perr = "ok") =>
        BarCount(sequence.Notes) + 3 * NoteCount(sequence.Notes)
           = sequence.TotalLines

\* C10: in every Sequence parseBytes returns, the recorded trailer is the
\* one at data[6+N .. 6+N+3], N = total_lines, and TotalLines2 = TotalLines.
C10_TrailerAtBodyEnd ==
    (ppc = "done" /\ perr = "ok") =>
        LET n == TotalLinesOf
        IN  /\ sequence.ChecksumByte = Byte(6 + n)
            /\ sequence.TotalLines2 = Uint16(Byte(6 + n + 1), Byte(6 + n + 2))
            /\ sequence.TotalLines2 = sequence.TotalLines
            /\ sequence.ParityByte = Byte(6 + n + 3)

Validated == ppc = "done" /\ perr # "none"

\* the body bytes data[6..6+N) added up as unsigned values
BodyByteSum == RangeSum(data, 7, 6 + TotalLinesOf)

Checksum1Congruent ==
    (Byte(4) + Byte(5) + BodyByteSum + Byte(6 + TotalLinesOf)) % 256 = 0

Checksum2Congruent ==
    (Byte(6 + TotalLinesOf + 1) + Byte(6 + TotalLinesOf + 2)
     + Byte(6 + TotalLinesOf + 3)) % 256 = 0

\* every check other than checksum 1 passes, total_lines within 0..999
OtherChecksPass ==
    /\ dataLen >= 10
    /\ Byte(0) = magicByte
    /\ \A d \in 1..3 : Byte(d) <= 9
    /\ TotalLinesOf <= 999
    /\ dataLen >= TotalLinesOf + 10
    /\ NoteLinesOf(TotalLinesOf) % 3 = 0
    /\ TotalLinesOf = Uint16(Byte(6 + TotalLinesOf + 1),
                             Byte(6 + TotalLinesOf + 2))
    /\ Checksum2Congruent

\* C11: every payload validateBytes accepts satisfies
\* (data[4] + data[5] + sum of the N body bytes + data[6+N]) mod 256 = 0,
\* and a payload that passes every other check but not this congruence is
\* rejected with an error.
C11_Checksum1Invariant ==
    Validated =>
       /\ perr = "ok" => Checksum1Congruent
       /\ (OtherChecksPass /\ ~Checksum1Congruent)
             => perr \notin {"ok", "fault"}

\* an accepted payload of 258 body bytes, whose length bytes are both
\* non-zero
C11_Witness ==
    /\ Validated
    /\ kind = "asis"
    /\ TotalLinesOf = 258
    /\ perr = "ok"
    /\ Checksum1Congruent

\* C12: every payload validateBytes accepts satisfies (data[4] + data[5]
\* + sum of the N body bytes + parity_byte_1 + data[6+N+1]) mod 256 = 0,
\* for every total_lines in 0..999.
C12_Parity1WithLengthCopy ==
    (Validated /\ perr = "ok" /\ TotalLinesOf <= 999) =>
       (Byte(4) + Byte(5) + BodyByteSum + Byte(6 + TotalLinesOf)
        + Byte(6 + TotalLinesOf + 1)) % 256 = 0

\* C13: a payload that passes all earlier checks is accepted if and only if
\* (data[6+N+1] + data[6+N+2] + data[6+N+3]) mod 256 = 0.
C13_Checksum2Iff ==
    (Validated /\ perr \in {"ok", "errParity"}) =>
       (perr = "ok" <=> Checksum2Congruent)

\* C14: a single-bit flip in a body byte of an accepted payload makes
\* validateBytes return the checksum-1 error.
C14_BodyFlipIsChecksum1 ==
    (Validated /\ kind = "bodyflip") => perr = "errChecksum1"

\* C15: a single-bit flip in either byte of the length copy of an accepted
\* payload makes validateBytes return the length-echo error or the
\* checksum-2 error.
C15_CopyFlipIsEchoOrChecksum2 ==
    (Validated /\ kind = "copyflip") => perr \in {"errLineCount", "errParity"}

\* C16: a header length field of 1000 or more is rejected with the
\* total-lines error whatever the other bytes are, and an encoded payload
\* of 999 body bytes is accepted.
C16_TotalLinesUpTo999 ==
    Validated =>
       /\ (dataLen >= 10 /\ Byte(0) = magicByte
           /\ (\A d \in 1..3 : Byte(d) <= 9) /\ TotalLinesOf >= 1000)
             => perr = "errTotalLines"
       /\ (kind = "asis" /\ TotalLinesOf = 999) => perr = "ok"

\* C17: validateBytes reports the first failing check, checksum 1 coming
\* before the note-line count: a payload that passes the checks up to the
\* length check and violates both checksum 1 and the multiple-of-3 rule
\* yields the checksum-1 error.
C17_Checksum1BeforeNoteLines ==
    (/\ Validated
     /\ dataLen >= 10
     /\ Byte(0) = magicByte
     /\ \A d \in 1..3 : Byte(d) <= 9
     /\ TotalLinesOf <= 999
     /\ dataLen >= TotalLinesOf + 10
     /\ ~Checksum1Congruent
     /\ NoteLinesOf(TotalLinesOf) % 3 # 0)
       => perr = "errChecksum1"

Parsed == ppc = "done" /\ perr = "ok" /\ variant = "main.go"

NAMES == <<"C", "C#", "D", "D#", "E", "F", "F#", "G", "G#", "A", "A#", "B">>

\* C18: in the Sequence parseBytes returns, program_number is
\* 100*data[1] + 10*data[2] + data[3] (within 0..999), total_lines is the
\* big-endian length field, and the k-th note is made from the k-th
\* three-byte record [step, gate, flags]: step_length = step, gate_length =
\* gate, note_num = flags & 0x3F, portamento = bit 7 of flags, accent =
\* bit 6 of flags, note_name = NAMES[note_num mod 12], octave =
\* note_num div 12 + 1.
C18_ParseMatchesReference ==
    Parsed =>
       /\ sequence.ProgramNumber = 100 * Byte(1) + 10 * Byte(2) + Byte(3)
       /\ sequence.ProgramNumber \in 0..999
       /\ sequence.TotalLines = 256 * Byte(4) + Byte(5)
       /\ 3 * Len(sequence.Notes) >= sequence.TotalLines
       /\ \A k \in 1..Len(sequence.Notes) :
            LET n == sequence.Notes[k]
                step == Byte(6 + 3 * (k - 1))
                gate == Byte(6 + 3 * (k - 1) + 1)
                flags == Byte(6 + 3 * (k - 1) + 2)
            IN  /\ ~n.Bar
                /\ n.StepLength = step
                /\ n.GateLength = gate
                /\ n.NoteNum = flags % 64
                /\ n.NoteNum \in 0..63
                /\ n.Portamento = (flags >= 128)
                /\ n.Accent = (flags % 128 >= 64)
                /\ n.NoteName = NAMES[(n.NoteNum % 12) + 1]
                /\ n.Octave = (n.NoteNum \div 12) + 1

\* a returned Sequence with a note of flags 0xDA: portamento, accent, D3
C18_Witness ==
    /\ Parsed
    /\ \E k \in 1..Len(sequence.Notes) :
         /\ Byte(6 + 3 * (k - 1) + 2) = 218
         /\ sequence.Notes[k].Portamento
         /\ sequence.Notes[k].Accent
         /\ sequence.Notes[k].NoteNum = 26
         /\ sequence.Notes[k].NoteName = "D"
         /\ sequence.Notes[k].Octave = 3

\* E0, three digits, 00 00 and the trailer 00 00 00 00
EmptySequenceGiven ==
    /\ variant = "main.go"
    /\ dataLen = 10
    /\ Len(data) = 10
    /\ Byte(0) = magicByte
    /\ \A d \in 1..3 : Byte(d) <= 9
    /\ \A d \in 4..9 : Byte(d) = 0

\* C19: the 10-byte payload with total_lines = 0 is accepted by
\* validateBytes and parsed by parseBytes to a Sequence with no notes and
\* TotalLines = TotalLines2 = 0.
C19_EmptySequenceParses ==
    EmptySequenceGiven =>
       /\ validateBytes = "ok"
       /\ ppc = "walk" => (i = 6 /\ sequence.Notes = <<>>)
       /\ ppc = "done" =>
            /\ perr = "ok"
            /\ sequence.Notes = <<>>
            /\ sequence.TotalLines = 0
            /\ sequence.TotalLines2 = 0

C19_Witness ==
    /\ EmptySequenceGiven
    /\ ppc = "done"
    /\ perr = "ok"
    /\ sequence.Notes = <<>>
    /\ sequence.ProgramNumber = 999

\* the sign of a sample: negative or not
Negative(v) == v < 0

\* C20: each bit generateSignChangeBits emits for a processed frame is 1
\* iff the sign (negative or not) of that frame's sample differs from the
\* sign of the sample of the frame processed before it, the sign before the
\* first frame being non-negative; for bit depths 16, 24 and 32.
C20_BitIsSignChange ==
    (spc # "idle" /\ sret \in {"none", "ok"}
     /\ decoder.BitDepth \in SupportedDepths) =>
       /\ Len(bits) = Len(processed)
       /\ \A k \in 1..Len(bits) :
            bits[k] = IF Negative(processed[k].v)
                         # (k > 1 /\ Negative(processed[k - 1].v))
                      THEN 1 ELSE 0

\* a returned bit list of a 24-bit file that holds the least sample and
\* the greatest sample with a zero high byte, with bits of both values
C20_Witness ==
    /\ spc = "done"
    /\ sret = "ok"
    /\ decoder.BitDepth = 24
    /\ \E k \in 1..Len(bits) : bits[k] = 1 /\ processed[k].v = LeastSample(24)
    /\ \E k \in 1..Len(bits) : bits[k] = 0 /\ processed[k].v = 2 ^ 16 - 1
    /\ \E k \in 1..Len(bits) : bits[k] = 1 /\ processed[k].v = 0

\* generateSignChangeBits returned its bits for a file of whole frames
SignBitsReturned ==
    /\ spc = "done"
    /\ sret = "ok"
    /\ decoder.BitDepth \in SupportedDepths
    /\ Len(decoder.pcm) % decoder.NumChans = 0

\* C21: every bit is computed from a sample of the leading channel, i.e.
\* from an interleaved sample whose index in the file is 0 modulo
\* num_channels, across every sequence of buffer fills.
C21_BitsFromLeadingChannel ==
    SignBitsReturned =>
       \A k \in 1..Len(processed) :
          (processed[k].fill = processed[k].at)
             => (processed[k].src - 1) % decoder.NumChans = 0

\* C22: without offset the number of bits returned equals the number of
\* frames the PCM source delivered, and no bit is derived from an entry of
\* buf.Data that the fill of its iteration did not write.
C22_OneBitPerDeliveredFrame ==
    (SignBitsReturned /\ ~offset) =>
       /\ Len(bits) = Len(decoder.pcm) \div decoder.NumChans
       /\ \A k \in 1..Len(processed) : processed[k].fill = processed[k].at

\* C23: for a bit depth outside {16, 24, 32} generateSignChangeBits returns
\* the unsupported-bit-depth error and no bits, whatever the PCM source
\* delivers, zero frames included.
C23_UnsupportedDepthIsError ==
    (spc = "done" /\ decoder.BitDepth \notin SupportedDepths
     /\ sret \notin {"err", "errOffset"}) =>
       (sret = "errDepth" /\ bits = <<>>)

(***************************************************************************)
(* generateBytes, the bookkeeping of the loop                              *)
(***************************************************************************)
\* the loop condition of line 135 is about to be tested, or the function
\* has returned without a fault
AtLoopBoundary ==
    \/ pc = "loop"
    \/ pc = "done" /\ outcome # "fault"

\* C24: at every boundary of the outer loop of generateBytes, len(result) is
\* validByteIndex + 1, foundMagicByte holds exactly when validByteIndex >= 0,
\* a non-empty result begins with 0xE0, and the bytes stored at result[1],
\* result[2] and result[3] are in 0..9
C24_ResultBookkeeping ==
    AtLoopBoundary =>
       /\ Len(result) = validByteIndex + 1
       /\ foundMagicByte <=> validByteIndex >= 0
       /\ result # <<>> => result[1] = magicByte
       /\ \A k \in 2..Min(4, Len(result)) : result[k] \in 0..9

\* a hypothesis was aborted at its third digit and a later one has got past
\* its program number
C24_Witness ==
    /\ pc = "loop"
    /\ kind = "falsemagic"
    /\ foundMagicByte
    /\ Len(result) = 5
    /\ branch.name = "GBAccept"

\* C25: whenever foundMagicByte holds, magicByteIndex is one bit width before
\* the cursor at which the data bits of the byte stored at result[0] began;
\* accepting later bytes of the hypothesis, a 0xE0 among them, leaves it so
C25_MagicIndexAnchorsFirstByte ==
    (foundMagicByte /\ pc # "entry") =>
       magicByteIndex = branch.hyp - framesPerBit

(***************************************************************************)
(* generateBytes, the steps taken when a start bit is recognized           *)
(***************************************************************************)
\* the sample ring holds the framesPerBit transitions from position from
\* on, the oldest at sampleIndex, and signChanges is their number: the
\* post-state of the refill loops of lines 204-210, 248-254 and 290-296
WindowRefilledFrom(from) ==
    /\ \A k \in 0..(framesPerBit - 1) :
          sample'[((sampleIndex' + k) % framesPerBit) + 1] = Bit(from + k)
    /\ signChanges' = WindowSumFrom(from, framesPerBit)

\* a start bit is recognized, the eight data bits are readable, a hypothesis
\* is open and the byte being acquired is a program-number digit
AtProgramDigit ==
    /\ AtTrigger
    /\ DataBitsReadable(bitstreamIndex)
    /\ foundMagicByte
    /\ validByteIndex + 1 \in {1, 2, 3}

AtStopCheck ==
    /\ AtTrigger
    /\ DataBitsReadable(bitstreamIndex)
    /\ foundMagicByte \/ ByteVal(bitstreamIndex) = magicByte
    /\ ~(/\ foundMagicByte
         /\ validByteIndex + 1 \in {1, 2, 3}
         /\ ByteVal(bitstreamIndex) > 9)
    /\ lastByteIndex = 0 \/ validByteIndex + 1 # lastByteIndex

\* stop-bit window n (0 or 1) of the byte read from the cursor is the first
\* that sums to less than 7
StopBitFailsAt(n) ==
    /\ ~SliceFaults(bitstreamIndex + (8 + n) * framesPerBit)
    /\ \A m \in 0..(n - 1) :
          WindowSum(bitstreamIndex + (8 + m) * framesPerBit) >= 7
    /\ WindowSum(bitstreamIndex + (8 + n) * framesPerBit) < 7

\* the refill loop of lines 248-252 ran from position from, starting at the
\* old sampleIndex, and line 254 recomputed the count
RingRefilledFrom(from) ==
    /\ \A k \in 0..(framesPerBit - 1) :
          from + k < BitstreamLen =>
             sample'[((sampleIndex + k) % framesPerBit) + 1] = Bit(from + k)
    /\ signChanges' = sum(sample')

\* C27: when stop-bit window 0 or 1 of a non-terminal byte sums to less than
\* 7, no byte is appended; without a hypothesis the cursor goes back to where
\* the byte's data bits began and result, validByteIndex and foundMagicByte
\* are unchanged; with a hypothesis open it is aborted and the cursor goes to
\* magicByteIndex + framesPerBit; either way the window is refilled from the
\* cursor and the scan continues one window further on
C27_StopBitFailureRewinds ==
    [][(AtStopCheck /\ \E n \in {0, 1} : StopBitFailsAt(n)) =>
          LET from == IF foundMagicByte THEN magicByteIndex + framesPerBit
                      ELSE bitstreamIndex
          IN  /\ Len(result') <= Len(result)
              /\ IF foundMagicByte
                 THEN /\ result' = <<>>
                      /\ ~foundMagicByte'
                      /\ validByteIndex' = -1
                 ELSE /\ result' = result
                      /\ validByteIndex' = validByteIndex
                      /\ foundMagicByte' = foundMagicByte
              /\ RingRefilledFrom(from)
              /\ bitstreamIndex' = from + framesPerBit
              /\ pc' = "loop"]_vars

\* the second stop bit of a program digit failed with a hypothesis open: the
\* scan is back at the loop, before the cursor at which the digit began
C27_Witness ==
    /\ pc = "loop"
    /\ kind = "brokenstop"
    /\ branch.name = "GBStopBitFail"
    /\ bitstreamIndex < branch.at
    /\ result = <<>>
    /\ ~foundMagicByte

(***************************************************************************)
(* generateBytes, the guard tone                                           *)
(***************************************************************************)
\* guard window n counted from the cursor can be sliced and sums to >= 7
GuardWindowDense(n) ==
    /\ ~SliceFaults(bitstreamIndex + n * framesPerBit)
    /\ WindowSum(bitstreamIndex + n * framesPerBit) >= 7

\* guard window n is the first that is not dense, and it can be sliced
GuardWindowSparse(n) ==
    /\ \A m \in 0..(n - 1) : GuardWindowDense(m)
    /\ ~SliceFaults(bitstreamIndex + n * framesPerBit)
    /\ WindowSum(bitstreamIndex + n * framesPerBit) < 7

\* C28: accepting the byte with ordinal 3 sets insideBuffer; the next
\* iteration then consumes the 122 guard windows (and the window of the
\* refill that follows any accepted byte) without acquiring a byte, once,
\* when all of them sum to >= 7, and returns the invalid-data-buffer error at
\* once, nothing rewound, when one of them sums to < 7; the byte with ordinal
\* 4 is acquired only with insideBuffer cleared, which only the dense
\* traversal does
C28_GuardToneTraversal ==
    [][/\ (validByteIndex = 2 /\ validByteIndex' = 3) =>
             (insideBuffer' /\ pc' = "loop")
       /\ insideBuffer => (validByteIndex = 3 /\ pc \in {"loop", "done"})
       /\ (insideBuffer /\ ~insideBuffer') =>
             /\ \A n \in 0..(dataBufferLength - 1) : GuardWindowDense(n)
             /\ bitstreamIndex' =
                   bitstreamIndex + (dataBufferLength + 1) * framesPerBit
             /\ result' = result
             /\ validByteIndex' = validByteIndex
       /\ (/\ insideBuffer /\ pc = "loop"
           /\ bitstreamIndex < BitstreamLen
           /\ \A n \in 0..(dataBufferLength - 1) : GuardWindowDense(n)) =>
             (~insideBuffer' /\ pc' = "slide")
       /\ (/\ insideBuffer /\ pc = "loop"
           /\ bitstreamIndex < BitstreamLen
           /\ \E n \in 0..(dataBufferLength - 1) : GuardWindowSparse(n)) =>
             /\ pc' = "done" /\ outcome' = "errBuffer"
             /\ result' = result
             /\ foundMagicByte' = foundMagicByte
             /\ validByteIndex' = validByteIndex
       /\ (validByteIndex = 3 /\ validByteIndex' = 4) => ~insideBuffer]_vars

\* the guard tone after the third program digit has just been traversed
C28_Witness ==
    /\ pc = "slide"
    /\ branch.name = "GBGuardTraversal"
    /\ validByteIndex = 3
    /\ ~insideBuffer
    /\ bitstreamIndex = branch.at + (dataBufferLength + 1) * framesPerBit

(***************************************************************************)
(* generateBytes, the last byte                                            *)
(***************************************************************************)
\* this step appends the byte read from the cursor
AppendsByte == result' = Append(result, ByteVal(bitstreamIndex))

\* the byte about to be acquired is the one line 225 exempts from the
\* stop-bit test
TerminalNext == lastByteIndex # 0 /\ validByteIndex + 1 = lastByteIndex

\* lastByteIndex as line 273 computes it from the length field stored in
\* result[4] and result[5]
LengthKnown ==
    /\ Len(result) >= 6
    /\ lastByteIndex = 5 + ((result[5] * 256 + result[6]) % 65536) + 4

\* C29: the stop-bit test is skipped for one byte of a hypothesis only, the
\* byte whose ordinal is lastByteIndex as computed from the length field of
\* that hypothesis; every other byte appended was followed by two windows
\* summing to >= 7; appending the terminal byte ends generateBytes at once,
\* with no transition read beyond its eighth data bit
C29_TerminalByte ==
    [][/\ pc # "done"
       /\ (AtTrigger /\ foundMagicByte /\ TerminalNext) => LengthKnown
       /\ (AtTrigger /\ foundMagicByte /\ TerminalNext
           /\ DataBitsReadable(bitstreamIndex)) =>
             /\ AppendsByte
             /\ pc' = "done"
             /\ bitstreamIndex' = bitstreamIndex + 8 * framesPerBit
             /\ maxRead' = Max(maxRead, bitstreamIndex + 8 * framesPerBit - 1)
       /\ (AtTrigger /\ Len(result') = Len(result) + 1
           /\ ~(foundMagicByte /\ TerminalNext)) =>
             /\ WindowSum(bitstreamIndex + 8 * framesPerBit) >= 7
             /\ WindowSum(bitstreamIndex + 9 * framesPerBit) >= 7
             /\ pc' = "loop"
       /\ (AtTrigger /\ Len(result') = Len(result) + 1) => AppendsByte]_vars

\* the last byte of a sequence decoded after an abandoned one has been
\* appended without stop bits, and generateBytes has returned the sequence
C29_Witness ==
    /\ pc = "done" /\ outcome = "ok"
    /\ kind = "stalelength"
    /\ branch.name = "GBAcceptLast"
    /\ bitstreamIndex = branch.at + 8 * framesPerBit
    /\ maxRead < bitstreamIndex
    /\ Len(result) = lastByteIndex + 1

(***************************************************************************)
(* generateBytes, termination                                              *)
(***************************************************************************)
\* the iteration that recognized a start bit at the cursor ends with this
\* step
EndsIteration == pc = "test"

\* C30: generateBytes terminates: an iteration that does not return leaves
\* the cursor beyond where it found it, or gives up the open hypothesis and
\* resumes beyond the cursor at which that hypothesis was triggered; a byte
\* rewound without a hypothesis resumes beyond the cursor at which it was
\* triggered; and the function eventually returns or panics
C30_Terminates ==
    /\ [][EndsIteration =>
             \/ pc' = "done"
             \/ bitstreamIndex' > bitstreamIndex
             \/ /\ foundMagicByte /\ ~foundMagicByte'
                /\ bitstreamIndex' > branch.hyp]_vars
    /\ <>(pc = "done")

\* generateBytes has returned from a stream on which an open hypothesis was
\* given up at a broken stop bit and the cursor taken back
C30_Witness ==
    /\ pc = "done"
    /\ kind = "brokenstop"
    /\ outcome # "fault"
    /\ bitstreamIndex >= BitstreamLen \/ branch.name = "GBAcceptLast"

(***************************************************************************)
(* generateBytes, the sample window                                        *)
(***************************************************************************)
\* the number of entries of the ring that are set
RingCount == Cardinality({ j \in 1..Len(sample) : sample[j] > 0 })

\* C31: wherever generateBytes tests the start-bit trigger, and after every
\* refill, signChanges is the sum of the framesPerBit entries held in the
\* ring: from the initial fill on, through slides, discards, rewinds, the
\* guard traversal and partial refills at the end of the stream
C31_CountIsRingSum ==
    pc \in {"loop", "slide", "test"} =>
       (Len(sample) = framesPerBit /\ signChanges = RingCount)

\* the trigger is tested after a rewind took the cursor back behind
\* transitions already read
C31_Witness ==
    /\ pc = "test"
    /\ signChanges <= 4
    /\ signChanges > 0
    /\ bitstreamIndex < maxRead
    /\ signChanges = RingCount

\* C32: whenever generateBytes tests the start-bit trigger with the cursor at
\* c, the ring holds, oldest first from sampleIndex, the transitions
\* bitstream[c - framesPerBit + 1 .. c]; so on the first iterations after the
\* initial fill and on the iteration that follows a discard
C32_RingHoldsLastTransitions ==
    pc = "test" =>
       \A k \in 0..(framesPerBit - 1) :
          sample[((sampleIndex + k) % framesPerBit) + 1]
             = Bit(bitstreamIndex - framesPerBit + 1 + k)

\* C33: before the magic byte, a byte that is not 0xE0 is dropped with
\* result, foundMagicByte, validByteIndex and magicByteIndex unchanged and no
\* stop bits tested, and the iteration that follows the discard does not
\* recognize a start bit: the count it tests is not yet one over the
\* transitions after the discarded byte
C33_DiscardThenScan ==
    [][/\ (/\ AtTrigger /\ DataBitsReadable(bitstreamIndex)
           /\ ~foundMagicByte /\ ByteVal(bitstreamIndex) # magicByte) =>
             /\ result' = result
             /\ foundMagicByte' = foundMagicByte
             /\ validByteIndex' = validByteIndex
             /\ magicByteIndex' = magicByteIndex
             /\ bitstreamIndex' = bitstreamIndex + 8 * framesPerBit
             /\ pc' = "loop"
       /\ (pc = "loop" /\ branch.name = "GBDiscard" /\ pc' = "test") =>
             signChanges' > 4]_vars

(***************************************************************************)
(* generateBytes, the acquisition of a byte                                *)
(***************************************************************************)
\* bit k (0 the least significant) is set exactly when the k-th window of
\* framesPerBit transitions from c on sums to at least 7
AcquiredBit(c, k) ==
    IF WindowSumFrom(c + k * framesPerBit, framesPerBit) >= 7 THEN 1 ELSE 0

AcquiredByte(c) ==
    AcquiredBit(c, 0) + 2 * AcquiredBit(c, 1) + 4 * AcquiredBit(c, 2)
    + 8 * AcquiredBit(c, 3) + 16 * AcquiredBit(c, 4) + 32 * AcquiredBit(c, 5)
    + 64 * AcquiredBit(c, 6) + 128 * AcquiredBit(c, 7)

\* C34: when a start bit is recognized with the cursor at c, the byte
\* acquired has bit k set exactly when bitstream[c + k*framesPerBit ..
\* c + (k+1)*framesPerBit) sums to >= 7 (a window of 5 or 6 gives a 0 bit),
\* and the cursor moves on by 8 * framesPerBit: it is there when the byte is
\* discarded or is the last one, and 2 stop windows further, before the
\* refill window or the guard tone, when another byte is appended
C34_ByteAcquisition ==
    [][(AtTrigger /\ DataBitsReadable(bitstreamIndex)) =>
          LET c == bitstreamIndex
              b == AcquiredByte(bitstreamIndex)
          IN  /\ Len(result') = Len(result) + 1 =>
                    /\ result' = Append(result, b)
                    /\ previousByte' = b
                    /\ bitstreamIndex' \in
                          { c + 8 * framesPerBit, c + 10 * framesPerBit,
                            c + 11 * framesPerBit }
                    /\ pc' = "done" <=>
                          bitstreamIndex' = c + 8 * framesPerBit
              /\ (~foundMagicByte /\ b # magicByte) =>
                    /\ bitstreamIndex' = c + 8 * framesPerBit
                    /\ result' = result
              /\ (~foundMagicByte /\ b = magicByte /\ pc' = "loop"
                  /\ WindowSum(c + 8 * framesPerBit) >= 7
                  /\ WindowSum(c + 9 * framesPerBit) >= 7) =>
                    result' = <<magicByte>>
              /\ (foundMagicByte /\ validByteIndex + 1 \in {1, 2, 3}) =>
                    (foundMagicByte' => b <= 9)]_vars

\* a byte has been appended one of whose data windows sums to 5 or 6, and
\* its bit is 0
C34_Witness ==
    /\ pc = "loop"
    /\ branch.name \in AcceptBranches
    /\ result # <<>>
    /\ \E k \in 0..7 :
          /\ WindowSum(branch.at + k * framesPerBit) \in {5, 6}
          /\ (result[Len(result)] \div (2 ^ k)) % 2 = 0

(***************************************************************************)
(* generateBytes, the length field                                         *)
(***************************************************************************)
\* C35: in every state of generateBytes a non-zero lastByteIndex means that
\* the length field of the current hypothesis has been accepted and is what
\* lastByteIndex was computed from; after a hypothesis is abandoned
\* lastByteIndex is 0 again
C35_LengthSentinel ==
    (pc # "idle" /\ lastByteIndex # 0) =>
       /\ validByteIndex >= 5
       /\ Len(result) >= 6
       /\ lastByteIndex = 5 + (result[5] * 256 + result[6]) + 4

(***************************************************************************)
(* generateBytes, the result buffer                                        *)
(***************************************************************************)
\* the cursors in s are strictly increasing
StrictlyIncreasing(s) ==
    \A a, b \in 1..Len(s) : a < b => s[a] < s[b]

\* C36: from one state of generateBytes to the next, result is unchanged,
\* or has one byte appended at its end, or is emptied as a hypothesis is
\* given up; bytes already appended are not modified, and the bytes in result
\* were acquired at strictly increasing positions of the bitstream, in
\* result order
C36_ResultAppendOnly ==
    [][pc # "entry" =>
          /\ \/ result' = result
             \/ /\ Len(result') = Len(result) + 1
                /\ \A k \in 1..Len(result) : result'[k] = result[k]
                /\ branch'.from = Append(branch.from, bitstreamIndex)
             \/ /\ result' = <<>>
                /\ foundMagicByte /\ ~foundMagicByte'
          /\ Len(branch'.from) = Len(result')
          /\ StrictlyIncreasing(branch'.from)]_vars

\* bytes have been appended again after a hypothesis holding six bytes was
\* given up
C36_Witness ==
    /\ pc = "loop"
    /\ kind = "stalelength"
    /\ branch.name = "GBAccept"
    /\ Len(result) >= 7
    /\ Len(branch.from) = Len(result)
    /\ branch.from[1] > (ShortLeader + 6 * 11 + dataBufferLength) * SymWidth

\* C37: in every reachable state of generateBytes result holds at most
\* 6 + 999 + 4 = 1009 bytes, whatever the decoded length field says
C37_ResultBounded ==
    Len(result) <= 6 + MaxTotalLines000 + 4

(***************************************************************************)
(* generateSignChangeBits, the rewind and the offset fill                  *)
(***************************************************************************)
\* C38: in every call of generateSignChangeBits the PCM source is rewound
\* before the first fill; with offset set, the first fill is read and
\* discarded, and no sample of it yields a transition bit or becomes the
\* previous sign; with offset clear nothing is discarded, and the first
\* frame processed is the first sample of the file
C38_RewindThenDiscardOneFill ==
    /\ (spc \in {"offset", "read"} /\ decoder.reads = 0) => decoder.pos = 0
    /\ (spc # "idle" /\ offset) =>
          \A k \in 1..Len(processed) : processed[k].fill # 1
    /\ (spc # "idle" /\ ~offset /\ processed # <<>>) =>
          (processed[1].fill = 1 /\ processed[1].src = 1)

(***************************************************************************)
(* validateBytes, the variants of part_000 and part_002 compared           *)
(***************************************************************************)
\* C39: the validateBytes of part_000 (unsigned sum, compared in wrapping
\* 8-bit arithmetic) and that of part_002 (signed 8-bit terms, compared as
\* int) accept the same byte sequences
C39_VariantsAgree ==
    (ppc = "done" /\ variant \in {"part_000", "part_002"}) =>
       (validateBytes000 = "ok" <=> validateBytes002 = "ok")

=============================================================================
